---- MODULE Spec2Model ----
(***************************************************************************)
(* Model of the Phase-2 task backend: the JWKS key cache and verify_token  *)
(* (app/core/auth.py), the five task routes (app/api/v1/tasks.py), the     *)
(* task service (app/services/task_service.py) and the owner-scoped        *)
(* repository (app/repositories/task_repository.py).                       *)
(*                                                                         *)
(* A request is a coroutine.  Each action below is one await that really   *)
(* suspends (the JWKS fetch of httpx, a storage call of the repository)    *)
(* going through, followed by the code that runs up to the next one.       *)
(***************************************************************************)
EXTENDS Integers, Sequences, FiniteSets, Bags, TLC

\* ------------------------------------------------------------------ bounds
MaxTicks == 3
MaxTasks == 2
MaxSnapTicks == 1
MaxRlTicks == 3
MaxRlOver == 1
MaxRlLate == 1
requests_per_minute == 2

\* ------------------------------------------------------- program constants
JWKS_CACHE_TTL == 300

\* ------------------------------------------------------------ input samples
TickSteps == {150}
Kids      == {"k1", "k2"}
Users     == {"A", "B"}
ReqIds    == {1, 2}
NoKid     == "nokid"
NoExp     == -1
Absent    == "absent"
None      == "None"
Forged    == "forged"

\* A bearer token: hdr = the header segment parses, kid = the header's kid,
\* alg = the header's alg, signer = the key pair that produced the signature
\* (Forged: nobody's), exp/sub/email/name = the payload claims (Absent: the
\* claim is not in the payload).
Tok(hdr, kid, alg, signer, exp, sub, email, name) ==
    [hdr |-> hdr, kid |-> kid, alg |-> alg, signer |-> signer, exp |-> exp,
     sub |-> sub, email |-> email, name |-> name]

TokA        == Tok(TRUE, "k1", "RS256", "k1", 100000, "A", "a@x", "Ann")
TokB        == Tok(TRUE, "k2", "RS256", "k2", 100000, "B", Absent, Absent)
TokSoon     == Tok(TRUE, "k1", "RS256", "k1", 300, "A", "a@x", Absent)
TokNoExp    == Tok(TRUE, "k1", "RS256", "k1", NoExp, "B", "b@x", "Bob")
TokForged   == Tok(TRUE, "k1", "RS256", Forged, 100000, "A", "a@x", "Ann")
TokForgedOld == Tok(TRUE, "k1", "RS256", Forged, 150, "A", "a@x", "Ann")
TokWrongKey == Tok(TRUE, "k1", "RS256", "k2", 100000, "A", "a@x", "Ann")
TokHS       == Tok(TRUE, "k1", "HS256", "k1", 100000, "A", "a@x", "Ann")
TokNoSub    == Tok(TRUE, "k1", "RS256", "k1", 100000, Absent, "a@x", "Ann")
TokEmptySub == Tok(TRUE, "k1", "RS256", "k1", 100000, "", "a@x", "Ann")
TokNoKid    == Tok(TRUE, NoKid, "RS256", "k1", 100000, "A", "a@x", "Ann")
TokBadHdr   == Tok(FALSE, NoKid, "RS256", Forged, 100000, "A", "a@x", "Ann")

AuthTokens == {TokA, TokB, TokSoon, TokNoExp, TokForged, TokForgedOld,
               TokWrongKey, TokHS, TokNoSub, TokEmptySub, TokNoKid, TokBadHdr}
ConcTokens == {TokA, TokB}
JwksSets   == {{"k1"}, {"k1", "k2"}}

\* The Authorization header value: the token with or without "Bearer ".
RawHeaders(toks) == [bearer : BOOLEAN, tok : toks]

\* ----------------------------------------------------------------- state
VARIABLES
    now,         \* time.time(), in seconds
    cache,       \* auth._cache: NoCache or [keys, expires_at]
    jwks,        \* the key ids the identity provider publishes now
    providerUp,  \* the JWKS endpoint answers 200
    req,         \* the requests (coroutines): position and locals
    tasks,       \* the tasks table: id -> row
    created,     \* number of rows inserted per path owner
    cli,         \* the todo CLI: the tasks file and the last printed message
    limiter      \* RateLimitMiddleware.request_counts and the last outcome

vars == <<now, cache, jwks, providerUp, req, tasks, created, cli, limiter>>

NoCache  == [keys |-> {}, expires_at |-> -1, set |-> FALSE]
NoResp   == [got |-> FALSE, ok |-> FALSE, keys |-> {}, bad |-> FALSE]
NoUser   == [kind |-> "none", id |-> "", email |-> "", name |-> "None"]
NoResult == [kind |-> "none"]
NoTask   == [kind |-> "none"]

Err(code, detail) == [kind |-> "error", code |-> code, detail |-> detail]
User(id, email, name) == [kind |-> "user", id |-> id, email |-> email, name |-> name]

IdleReq ==
    [pc |-> "idle", token |-> TokBadHdr, now_l |-> 0, resp |-> NoResp,
     keys |-> {}, fetches |-> 0, cache0 |-> NoCache, t0 |-> 0,
     envOk |-> TRUE, tdone |-> 0,
     user |-> NoUser, result |-> NoResult,
     op |-> "verify", owner |-> "-", tid |-> 0, body |-> NoTask,
     task |-> NoTask, dirty |-> NoTask, repoCalls |-> 0, gate |-> "none"]

\* ------------------------------------------------------------- key cache
\* (variant: the cached key set is never reused)
CacheNeverFresh(c, t) == FALSE

\* (variant: a snapshot still counts at the instant it expires)
CacheFreshInclusive(c, t) == c.set /\ t <= c.expires_at

\* _get_jwks line 52: `if _cache and now < _cache.expires_at`
CacheFresh(c, t) == c.set /\ t < c.expires_at

\* (variant: the fetched keys are added to the dict already cached)
NewCacheMerged(keys, t) ==
    [keys |-> cache.keys \cup keys, expires_at |-> t + JWKS_CACHE_TTL, set |-> TRUE]

\* _get_jwks lines 65-69: the dict built from one response, stamped with the
\* `now` read before the fetch
NewCache(keys, t) == [keys |-> keys, expires_at |-> t + JWKS_CACHE_TTL, set |-> TRUE]

\* clear_jwks_cache
ClearedCache == NoCache

\* ---------------------------------------------------------- verify_token
\* line 97-98
StripBearer(raw) == raw.tok

\* line 102: jwt.get_unverified_header raises DecodeError on a bad header
HeaderOk(tok) == tok.hdr

\* (variant: the membership test is dropped, so no retry for an unknown kid)
KidUnknownNoRetry(kid, keys) == kid = NoKid

\* line 105 / 109: `not kid or kid not in public_keys`
KidUnknown(kid, keys) == kid = NoKid \/ kid \notin keys

\* (variant: decode with verify_signature switched off)
DecodeNoSignature(tok, t) ==
    IF tok.exp # NoExp /\ tok.exp <= t THEN "expired" ELSE "payload"

\* (variant: exp is looked at before the signature)
DecodeExpiryFirst(tok, t) ==
    IF tok.exp # NoExp /\ tok.exp <= t THEN "expired"
    ELSE IF tok.alg # "RS256" THEN "invalid"
    ELSE IF tok.signer # tok.kid THEN "invalid"
    ELSE "payload"

\* line 117-122: jwt.decode(token, public_keys[kid], algorithms=["RS256"]):
\* algorithm, then signature under the key named by kid, then exp.
Decode(tok, t) ==
    IF tok.alg # "RS256" THEN "invalid"
    ELSE IF tok.signer # tok.kid THEN "invalid"
    ELSE IF tok.exp # NoExp /\ tok.exp <= t THEN "expired"
    ELSE "payload"

\* line 124-125: `if not user_id`
SubMissing(sub) == sub = Absent \/ sub = ""

\* (variant: User built with email and name swapped)
FinishSwapped(tok, t) ==
    LET d == Decode(tok, t) IN
    IF d = "expired" THEN Err(401, "Token has expired. Please sign in again.")
    ELSE IF d = "invalid" THEN Err(401, "Invalid token")
    ELSE IF SubMissing(tok.sub) THEN Err(401, "Invalid token: missing user id")
    ELSE User(tok.sub,
              IF tok.name = Absent THEN None ELSE tok.name,
              IF tok.email = Absent THEN "" ELSE tok.email)

\* lines 117-153, once the kid resolved to a key
Finish(tok, t) ==
    LET d == Decode(tok, t) IN
    IF d = "expired" THEN Err(401, "Token has expired. Please sign in again.")
    ELSE IF d = "invalid" THEN Err(401, "Invalid token")
    ELSE IF SubMissing(tok.sub) THEN Err(401, "Invalid token: missing user id")
    ELSE User(tok.sub,
              IF tok.email = Absent THEN "" ELSE tok.email,
              IF tok.name = Absent THEN None ELSE tok.name)

\* (variant: a fetch failure reported like a bad token)
FetchFailedAsInvalid == Err(401, "Invalid token")

\* lines 154-159: httpx.HTTPError (transport error, timeout, or the
\* HTTPStatusError of raise_for_status) becomes the 503
FetchFailed == Err(503, "Auth server unavailable. Please try again.")

\* _get_jwks lines 62-67: response.json() or the loop over the keys raises
\* (no "kid", a JWK that from_jwk rejects) before line 69 is reached; none
\* of verify_token's handlers catches it, and the application answers it
\* with generic_exception_handler
KeyBuildFailed == Err(500, "An unexpected error occurred")

\* The request record after verify_token returned or raised `res`.
Verified(q, res) ==
    IF res.kind = "user"
    THEN [q EXCEPT !.pc = "verified", !.user = res, !.tdone = now, !.resp = NoResp]
    ELSE [q EXCEPT !.pc = "done", !.result = res, !.tdone = now, !.resp = NoResp]

\* lines 102-115 after the first _get_jwks returned `keys`, with `c` the cache
\* at that point: parse the header, and on an unknown kid clear the cache and
\* enter _get_jwks again, which finds no cache and sends the GET.
AfterFirstKeys(r, q0, keys, c) ==
    LET q == [q0 EXCEPT !.keys = keys] IN
    IF ~HeaderOk(q.token)
    THEN /\ req' = [req EXCEPT ![r] = Verified(q, Err(401, "Invalid token"))]
         /\ cache' = c
    ELSE IF KidUnknown(q.token.kid, keys)
    THEN /\ req' = [req EXCEPT ![r] = [q EXCEPT !.pc = "fetch2", !.now_l = now,
                                               !.resp = NoResp,
                                               !.fetches = q.fetches + 1]]
         /\ cache' = ClearedCache
    ELSE /\ req' = [req EXCEPT ![r] = Verified(q, Finish(q.token, now))]
         /\ cache' = c

\* verify_token entered (lines 96-100): strip the prefix, enter _get_jwks.
VerifyEnter(r, q0, raw) ==
    LET q == [q0 EXCEPT !.token = StripBearer(raw), !.now_l = now,
                        !.cache0 = cache, !.t0 = now] IN
    IF CacheFresh(cache, now)
    THEN AfterFirstKeys(r, q, cache.keys, cache)
    ELSE /\ req' = [req EXCEPT ![r] = [q EXCEPT !.pc = "fetch1", !.fetches = 1]]
         /\ UNCHANGED cache

\* A direct call of verify_token(raw) (as the auth integration tests do).
VerifyStart(r, raw) ==
    /\ req[r].pc = "idle"
    /\ VerifyEnter(r, req[r], raw)
    /\ UNCHANGED <<now, jwks, providerUp, tasks, created, cli, limiter>>

\* The identity provider answers the GET of request r: a 200 with its current
\* key set, or a failure (network error, timeout, non-200).
ProviderServe(r) ==
    /\ req[r].pc \in {"fetch1", "fetch2"}
    /\ ~req[r].resp.got
    /\ req' = [req EXCEPT ![r].resp = [got |-> TRUE, ok |-> providerUp,
                                       keys |-> IF providerUp THEN jwks ELSE {},
                                       bad |-> FALSE],
                          ![r].envOk = req[r].envOk /\ providerUp
                                       /\ req[r].token.kid \in jwks]
    /\ UNCHANGED <<now, cache, jwks, providerUp, tasks, created, cli, limiter>>

\* The identity provider answers 200 with a body whose keys cannot all be
\* turned into public keys.
ProviderServeBad(r) ==
    /\ req[r].pc \in {"fetch1", "fetch2"}
    /\ ~req[r].resp.got
    /\ providerUp
    /\ req' = [req EXCEPT ![r].resp = [got |-> TRUE, ok |-> TRUE, keys |-> jwks,
                                       bad |-> TRUE],
                          ![r].envOk = FALSE]
    /\ UNCHANGED <<now, cache, jwks, providerUp, tasks, created, cli, limiter>>

\* The caller abandons the call while it waits for the GET: CancelledError
\* is raised at the await of line 57 and no handler of verify_token runs.
Abandon(r) ==
    /\ req[r].pc \in {"fetch1", "fetch2"}
    /\ req' = [req EXCEPT ![r] = IdleReq]
    /\ UNCHANGED <<now, cache, jwks, providerUp, tasks, created, cli, limiter>>

\* _get_jwks lines 56-72 resume in the first call, then lines 102-138.
FetchReturn1(r) ==
    /\ req[r].pc = "fetch1"
    /\ req[r].resp.got
    /\ IF ~req[r].resp.ok
       THEN /\ req' = [req EXCEPT ![r] = Verified(req[r], FetchFailed)]
            /\ UNCHANGED cache
       ELSE IF req[r].resp.bad
       THEN /\ req' = [req EXCEPT ![r] = Verified(req[r], KeyBuildFailed)]
            /\ UNCHANGED cache
       ELSE AfterFirstKeys(r, req[r], req[r].resp.keys,
                           NewCache(req[r].resp.keys, req[r].now_l))
    /\ UNCHANGED <<now, jwks, providerUp, tasks, created, cli, limiter>>

\* _get_jwks resumes in the retry (line 108), then lines 109-138.
FetchReturn2(r) ==
    /\ req[r].pc = "fetch2"
    /\ req[r].resp.got
    /\ IF ~req[r].resp.ok
       THEN /\ req' = [req EXCEPT ![r] = Verified(req[r], FetchFailed)]
            /\ UNCHANGED cache
       ELSE IF req[r].resp.bad
       THEN /\ req' = [req EXCEPT ![r] = Verified(req[r], KeyBuildFailed)]
            /\ UNCHANGED cache
       ELSE /\ cache' = NewCache(req[r].resp.keys, req[r].now_l)
            /\ req' = [req EXCEPT ![r] = Verified([req[r] EXCEPT !.keys = req[r].resp.keys],
                          IF KidUnknown(req[r].token.kid, req[r].resp.keys)
                          THEN Err(401, "Invalid token key")
                          ELSE Finish(req[r].token, now))]
    /\ UNCHANGED <<now, jwks, providerUp, tasks, created, cli, limiter>>

\* The caller drops the outcome; the slot serves the next call.
Recycle(r) ==
    /\ \/ req[r].pc = "done"
       \/ req[r].pc = "verified" /\ req[r].op = "verify"
    /\ req' = [req EXCEPT ![r] = IdleReq]
    /\ UNCHANGED <<now, cache, jwks, providerUp, tasks, created, cli, limiter>>

\* ------------------------------------------------------------ environment
Tick(d) ==
    /\ now + d <= MaxTicks * d
    /\ now' = now + d
    /\ UNCHANGED <<cache, jwks, providerUp, req, tasks, created, cli, limiter>>

SetProvider(up) ==
    /\ providerUp # up
    /\ providerUp' = up
    /\ UNCHANGED <<now, cache, jwks, req, tasks, created, cli, limiter>>

Rotate(ks) ==
    /\ jwks # ks
    /\ jwks' = ks
    /\ UNCHANGED <<now, cache, providerUp, req, tasks, created, cli, limiter>>

\* ---------------------------------------------------------- the todo CLI
\* tasks.json as JSONStore writes it: the tasks by id and next_id.  A file
\* that does not exist loads like this empty one.
MaxCliTasks == 2

NoText    == [lead |-> 0, text |-> "", n |-> 0, trail |-> 0]
NoCliTask == [title |-> NoText, description |-> NoText, status |-> "none"]
CliTask(title, description, status) ==
    [title |-> title, description |-> description, status |-> status]
EmptyStore == [tasks |-> [i \in 1..MaxCliTasks |-> NoCliTask], next_id |-> 1]
CliInit == [file |-> EmptyStore, out |-> [text |-> "", id |-> 0, lines |-> <<>>]]

\* ------------------------------------------------------ the rate limiter
\* request_counts: key -> (count, window_start).  `others` holds the entries
\* of further clients, each of which sent one request: the bag of their
\* window starts.  `out` is the last dispatch: its key, the count it read at
\* line 65, its outcome (forwarded to call_next, or HTTPException(429)
\* raised), and whether it ran the cleanup.  `response` is what the
\* application answers that request with.  The keys are the client hosts
\* h1 and h2, "unknown" for a request without a client, and the user_id "A"
\* that dispatch would take from a path parameter.
RlKeys == {"A", "h1", "h2", "unknown"}
OtherClients == 1000
NoEntry == [present |-> FALSE, count |-> 0, start |-> 0]
LimiterInit == [counts |-> [k \in RlKeys |-> NoEntry], others |-> EmptyBag,
                out |-> [key |-> "", result |-> "none", seen |-> 0,
                        cleaned |-> FALSE],
                response |-> [kind |-> "none"]]

\* ------------------------------------------------------------------ Init
Init ==
    /\ now = 0
    /\ cache = NoCache
    /\ jwks = {"k1"}
    /\ providerUp = TRUE
    /\ req = [r \in ReqIds |-> IdleReq]
    /\ tasks = <<>>
    /\ created = [u \in Users |-> 0]
    /\ cli = CliInit
    /\ limiter = LimiterInit

\* ---------------------------------------------- verify_token, one at a time
NextAuth ==
    \/ \E raw \in RawHeaders(AuthTokens) : VerifyStart(1, raw)
    \/ ProviderServe(1)
    \/ FetchReturn1(1)
    \/ FetchReturn2(1)
    \/ Recycle(1)
    \/ \E d \in TickSteps : Tick(d)
    \/ \E up \in BOOLEAN : SetProvider(up)
    \/ \E ks \in JwksSets : Rotate(ks)

SpecAuth == Init /\ [][NextAuth]_vars

\* ------------------------------------------- verify_token, calls interleaved
NextConc ==
    \/ \E r \in ReqIds, raw \in RawHeaders(ConcTokens) : VerifyStart(r, raw)
    \/ \E r \in ReqIds : ProviderServe(r)
    \/ \E r \in ReqIds : FetchReturn1(r)
    \/ \E r \in ReqIds : FetchReturn2(r)
    \/ \E r \in ReqIds : Recycle(r)
    \/ \E d \in TickSteps : Tick(d)
    \/ \E up \in BOOLEAN : SetProvider(up)
    \/ \E ks \in JwksSets : Rotate(ks)

SpecConc == Init /\ [][NextConc]_vars

\* ----------------- verify_token, calls interleaved, abandoned, bad key sets
SnapTokens   == {TokB}
SnapJwksSets == {{"k1"}, {"k2"}}
SnapTickSteps == {300}

NextSnap ==
    \/ \E r \in ReqIds, raw \in RawHeaders(SnapTokens) : VerifyStart(r, raw)
    \/ \E r \in ReqIds : ProviderServe(r)
    \/ \E r \in ReqIds : ProviderServeBad(r)
    \/ \E r \in ReqIds : FetchReturn1(r)
    \/ \E r \in ReqIds : FetchReturn2(r)
    \/ \E r \in ReqIds : Abandon(r)
    \/ \E r \in ReqIds : Recycle(r)
    \/ \E d \in SnapTickSteps : now + d <= MaxSnapTicks * d /\ Tick(d)
    \/ \E up \in BOOLEAN : SetProvider(up)
    \/ \E ks \in SnapJwksSets : Rotate(ks)

SpecSnap == Init /\ [][NextSnap]_vars

\* =========================================================== task routes
\* A string as what the code looks at: `lead` and `trail` whitespace
\* characters around `n` other characters that read `text`.
Str(lead, text, n, trail) == [lead |-> lead, text |-> text, n |-> n, trail |-> trail]
NoStr     == Str(0, "None", -1, 0)
StrLen(s) == s.lead + s.n + s.trail
\* (variant: str.lstrip(), trailing whitespace stays)
StripLeft(s) == Str(0, s.text, s.n, s.trail)
\* str.strip()
Strip(s)  == Str(0, s.text, s.n, 0)

BadId == 0
TaskIds == 1..MaxTasks

CreateBody(title, description, priority) ==
    [kind |-> "create", title |-> title, description |-> description,
     status |-> None, priority |-> priority]
UpdateBody(title, description, status, priority) ==
    [kind |-> "update", title |-> title, description |-> description,
     status |-> status, priority |-> priority]
NoBody == [kind |-> "none", title |-> NoStr, description |-> NoStr,
           status |-> None, priority |-> None]

\* models/task.py Task
Row(id, user_id, title, description, status, priority, c_at, u_at) ==
    [kind |-> "task", id |-> id, user_id |-> user_id, title |-> title,
     description |-> description, status |-> status, priority |-> priority,
     created_at |-> c_at, updated_at |-> u_at]

\* TaskCreateRequest: Field constraints on the raw value, then the validators
CreateValid(b) ==
    /\ b.title # NoStr
    /\ StrLen(b.title) >= 1 /\ StrLen(b.title) <= 500
    /\ Strip(b.title).n > 0
    /\ (b.description # NoStr => StrLen(b.description) <= 10000)
    /\ b.priority \in {Absent, None, "low", "medium", "high"}

CreateParsed(b) ==
    CreateBody(Strip(b.title),
               IF b.description # NoStr /\ Strip(b.description).n > 0
               THEN Strip(b.description) ELSE NoStr,
               IF b.priority = Absent THEN "medium" ELSE b.priority)

\* (variant: validate_status lets every status through)
UpdateValidAnyStatus(b) ==
    /\ (b.title # NoStr =>
           /\ StrLen(b.title) >= 1 /\ StrLen(b.title) <= 500
           /\ Strip(b.title).n > 0)
    /\ (b.description # NoStr => StrLen(b.description) <= 10000)
    /\ b.priority \in {None, "low", "medium", "high"}

\* TaskUpdateRequest
UpdateValid(b) ==
    /\ (b.title # NoStr =>
           /\ StrLen(b.title) >= 1 /\ StrLen(b.title) <= 500
           /\ Strip(b.title).n > 0)
    /\ (b.description # NoStr => StrLen(b.description) <= 10000)
    /\ b.status \in {None, "pending", "in-progress", "completed"}
    /\ b.priority \in {None, "low", "medium", "high"}

UpdateParsed(b) ==
    UpdateBody(IF b.title # NoStr THEN Strip(b.title) ELSE NoStr,
               b.description, b.status, b.priority)

\* What FastAPI binds to the route's parameters (task_id: UUID and the body
\* model); a failure never enters the route (validation_exception_handler).
RequestValid(op, tid, b) ==
    /\ (op \in {"get", "update", "delete"} => tid # BadId)
    /\ (op = "create" => CreateValid(b))
    /\ (op = "update" => UpdateValid(b))

ParsedBody(op, b) ==
    IF op = "create" THEN CreateParsed(b)
    ELSE IF op = "update" THEN UpdateParsed(b)
    ELSE b

\* (variant: the route forgets the comparison)
OwnerAlwaysMatches(user, owner) == TRUE

\* tasks.py: `if current_user.id != user_id: raise 403`
OwnerMatches(user, owner) == user.id = owner

ForbiddenDetail(op) ==
    IF op \in {"list", "get"} THEN "You can only access your own tasks"
    ELSE IF op = "create" THEN "You can only create tasks for yourself"
    ELSE IF op = "update" THEN "You can only update your own tasks"
    ELSE "You can only delete your own tasks"

\* (variant: a dependency failure does not stop the route)
RouteEntersAlways(q) == q.pc \in {"verified", "done"} /\ q.gate = "none"

\* Depends(get_current_user): the route body runs only when verify_token
\* returned a User
RouteEnters(q) == q.pc = "verified"

\* ------------------------------------------------------------ repository
\* (variant: the user_id predicate is missing from the WHERE clause)
find_by_id_unscoped(store, user_id, tid) ==
    IF tid \in DOMAIN store THEN store[tid] ELSE NoTask

\* (variant: deleted rows are filtered out of the single-row lookup too)
find_by_id_live(store, user_id, tid) ==
    IF tid \in DOMAIN store /\ store[tid].user_id = user_id
       /\ store[tid].status # "deleted"
    THEN store[tid] ELSE NoTask

\* TaskRepository.find_by_id: WHERE id = task_id AND user_id = user_id
find_by_id(store, user_id, tid) ==
    IF tid \in DOMAIN store /\ store[tid].user_id = user_id
    THEN store[tid] ELSE NoTask

\* (variant: the user_id predicate is missing from the WHERE clause)
ListedIdsUnscoped(store, user_id) ==
    {i \in DOMAIN store : store[i].status # "deleted"}

\* (variant: the status predicate is missing from the WHERE clause)
ListedIdsWithDeleted(store, user_id) ==
    {i \in DOMAIN store : store[i].user_id = user_id}

\* TaskRepository.find_by_user_id: WHERE user_id = ... AND status != 'deleted'
ListedIds(store, user_id) ==
    {i \in DOMAIN store : store[i].user_id = user_id /\ store[i].status # "deleted"}

\* (variant: ORDER BY updated_at DESC)
OrderingsByUpdate(store, ids) ==
    {s \in [1..Cardinality(ids) -> ids] :
        /\ \A i, j \in DOMAIN s : i # j => s[i] # s[j]
        /\ \A i, j \in DOMAIN s :
             i < j => store[s[i]].updated_at >= store[s[j]].updated_at}

\* ... ORDER BY created_at DESC: the orders the database may return
Orderings(store, ids) ==
    {s \in [1..Cardinality(ids) -> ids] :
        /\ \A i, j \in DOMAIN s : i # j => s[i] # s[j]
        /\ \A i, j \in DOMAIN s :
             i < j => store[s[i]].created_at >= store[s[j]].created_at}

Ok(code, data, message) ==
    [kind |-> "ok", code |-> code, data |-> data, message |-> message]
OkList(items) ==
    [kind |-> "list", code |-> 200, items |-> items, total |-> Len(items)]
NotFound == Err(404, "Task not found")

\* (variant: whatever was done, the client is told that the request failed)
RespondFailed(q, res) ==
    [q EXCEPT !.pc = "done", !.result = Err(400, "Request failed")]

Respond(q, res) == [q EXCEPT !.pc = "done", !.result = res]

\* verify_token has returned to get_current_user: its frame is gone, the
\* request keeps the User.
AfterVerify(q) ==
    [q EXCEPT !.keys = {}, !.now_l = 0, !.fetches = 0, !.cache0 = NoCache,
              !.t0 = 0, !.envOk = TRUE, !.tdone = 0]

\* A request to a task route arrives: Depends(get_current_user) calls
\* verify_token(authorization).
ApiStart(r, raw, op, owner, tid, body) ==
    /\ req[r].pc = "idle"
    /\ op = "create" => Len(tasks) < MaxTasks
    /\ VerifyEnter(r, [IdleReq EXCEPT !.op = op, !.owner = owner, !.tid = tid,
                                      !.body = body], raw)
    /\ UNCHANGED <<now, jwks, providerUp, tasks, created, cli, limiter>>

\* (variant: `or "medium"` is missing, a null priority is stored as it is)
NewTaskNoDefault(id, owner, b, t) ==
    Row(id, owner, Strip(b.title),
        IF b.description # NoStr /\ Strip(b.description).n > 0
        THEN Strip(b.description) ELSE NoStr,
        "pending", b.priority, t, t)

\* TaskService.create_task lines 50-54 and TaskRepository.create lines 69-75:
\* Task(...) takes created_at and updated_at from the clock as it is built
NewTask(id, owner, b, t) ==
    Row(id, owner, Strip(b.title),
        IF b.description # NoStr /\ Strip(b.description).n > 0
        THEN Strip(b.description) ELSE NoStr,
        "pending",
        IF b.priority = None THEN "medium" ELSE b.priority,
        t, t)

\* TaskService.create_task and TaskRepository.create up to the await of the
\* commit (line 77): nothing suspends between the route's entry and it, so
\* the Task is built, and stamped, in the step that enters the route.
CreateEnter(q) ==
    IF Strip(q.body.title).n <= 0
    THEN Respond(q, Err(400, "Task title cannot be empty"))
    ELSE IF q.body.description # NoStr /\ StrLen(q.body.description) > 10000
    THEN Respond(q, Err(400, "Task description cannot exceed 10,000 characters"))
    ELSE [q EXCEPT !.pc = "commit", !.dirty = NewTask(BadId, q.owner, q.body, now)]

\* Parameters bound, then the route body up to its first storage call.
RouteEnter(r) ==
    LET q == AfterVerify(req[r])
        q1 == [q EXCEPT !.gate = "passed", !.body = ParsedBody(q.op, q.body)] IN
    /\ q.op # "verify"
    /\ q.gate = "none"
    /\ RouteEnters(q)
    /\ req' = [req EXCEPT ![r] =
         IF ~RequestValid(q.op, q.tid, q.body)
         THEN Respond(q, Err(422, "Request validation failed"))
         ELSE IF ~OwnerMatches(q.user, q.owner)
         THEN Respond([q EXCEPT !.gate = "denied"], Err(403, ForbiddenDetail(q.op)))
         ELSE IF q.op = "create" THEN CreateEnter(q1)
         ELSE [q1 EXCEPT !.pc = "svc"]]
    /\ UNCHANGED <<now, cache, jwks, providerUp, tasks, created, cli, limiter>>

\* list_tasks: TaskService.list_tasks -> find_by_user_id
ListTasks(r) ==
    LET q == req[r] IN
    /\ q.pc = "svc" /\ q.op = "list"
    /\ \E ord \in Orderings(tasks, ListedIds(tasks, q.owner)) :
         req' = [req EXCEPT ![r] =
                   Respond([q EXCEPT !.repoCalls = q.repoCalls + 1],
                           OkList([i \in DOMAIN ord |-> tasks[ord[i]]]))]
    /\ UNCHANGED <<now, cache, jwks, providerUp, tasks, created, cli, limiter>>

\* get_task: TaskService.get_task -> find_by_id
GetTask(r) ==
    LET q == req[r]
        t == find_by_id(tasks, q.owner, q.tid) IN
    /\ q.pc = "svc" /\ q.op = "get"
    /\ req' = [req EXCEPT ![r] =
                 Respond([q EXCEPT !.repoCalls = q.repoCalls + 1, !.task = t],
                         IF t = NoTask THEN NotFound ELSE Ok(200, t, None))]
    /\ UNCHANGED <<now, cache, jwks, providerUp, tasks, created, cli, limiter>>

\* TaskRepository.create line 77: the commit inserts the row.  The row's id
\* (a uuid4 of the Task) is written as its position in the table.
CreateCommit(r) ==
    LET q == req[r]
        row == [q.dirty EXCEPT !.id = Len(tasks) + 1] IN
    /\ q.pc = "commit" /\ q.op = "create"
    /\ Len(tasks) < MaxTasks
    /\ tasks' = Append(tasks, row)
    /\ created' = [created EXCEPT ![q.owner] = @ + 1]
    /\ req' = [req EXCEPT ![r] = [q EXCEPT !.pc = "refresh", !.dirty = row,
                                           !.repoCalls = q.repoCalls + 1]]
    /\ UNCHANGED <<now, cache, jwks, providerUp, cli, limiter>>

\* TaskRepository.create line 78: refresh reads the row as it is stored
\* now; the route answers 201 with it.
CreateRefresh(r) ==
    LET q == req[r]
        row == tasks[q.dirty.id] IN
    /\ q.pc = "refresh" /\ q.op = "create"
    /\ req' = [req EXCEPT ![r] =
                 Respond([q EXCEPT !.task = row, !.dirty = NoTask],
                         Ok(201, row, "Task created successfully"))]
    /\ UNCHANGED <<now, cache, jwks, providerUp, tasks, created, cli, limiter>>

\* (variant: the service never looks at the status)
DeletedNever(t) == FALSE

\* task_service.py lines 93 and 142: `if task.status == "deleted"`
Deleted(t) == t.status = "deleted"

\* update_task: the SELECT of TaskService.update_task line 86, then lines
\* 87-121 up to the SELECT of TaskRepository.update
UpdateFind(r) ==
    LET q == req[r]
        t == find_by_id(tasks, q.owner, q.tid)
        q1 == [q EXCEPT !.repoCalls = q.repoCalls + 1, !.task = t] IN
    /\ q.pc = "svc" /\ q.op = "update"
    /\ req' = [req EXCEPT ![r] =
         IF t = NoTask THEN Respond(q1, NotFound)
         ELSE IF Deleted(t)
         THEN Respond(q1, Err(400, "Cannot update deleted task"))
         ELSE IF q.body.title # NoStr /\ Strip(q.body.title).n <= 0
         THEN Respond(q1, Err(400, "Task title cannot be empty"))
         ELSE IF q.body.description # NoStr /\ StrLen(q.body.description) > 10000
         THEN Respond(q1, Err(400, "Task description cannot exceed 10,000 characters"))
         ELSE [q1 EXCEPT !.pc = "repo"]]
    /\ UNCHANGED <<now, cache, jwks, providerUp, tasks, created, cli, limiter>>

\* (variant: every field of the request is written, provided or not)
UpdatedOverwrite(row, b, t) ==
    [row EXCEPT !.title = Strip(b.title), !.description = b.description,
                !.status = b.status, !.priority = b.priority, !.updated_at = t]

\* (variant: the update also rewrites user_id)
UpdatedWithOwner(row, b, t) ==
    [row EXCEPT !.title = IF b.title # NoStr THEN Strip(b.title) ELSE @,
                !.user_id = IF @ = "A" THEN "B" ELSE "A",
                !.updated_at = t]

\* TaskService.update_task lines 111-119 and TaskRepository.update lines
\* 93-97: the row with the provided fields and updated_at set
Updated(row, b, t) ==
    [row EXCEPT
       !.title = IF b.title # NoStr THEN Strip(b.title) ELSE @,
       !.description = IF b.description # NoStr
                       THEN (IF StrLen(b.description) > 0
                             THEN Strip(b.description) ELSE NoStr)
                       ELSE @,
       !.status = IF b.status # None THEN b.status ELSE @,
       !.priority = IF b.priority # None THEN b.priority ELSE @,
       !.updated_at = t]

\* The session's identity map (one AsyncSession per request, database.py):
\* a SELECT that finds a row whose Task the session already holds returns
\* that Task, with the attribute values it was loaded with.
IdentityMapped(loaded, row) == loaded

\* commit: the UPDATE sets the attributes whose value differs from the one
\* the Task was loaded with, and leaves the others as they are stored
Flush(row, loaded, obj) ==
    [a \in DOMAIN row |-> IF obj[a] # loaded[a] THEN obj[a] ELSE row[a]]

\* TaskRepository.update: the SELECT of line 89, then lines 90-99 up to the
\* await of the commit; updated_at is read from the clock here.
UpdateSelect(r) ==
    LET q == req[r]
        t == find_by_id(tasks, q.owner, q.tid)
        q1 == [q EXCEPT !.repoCalls = q.repoCalls + 1] IN
    /\ q.pc = "repo" /\ q.op = "update"
    /\ req' = [req EXCEPT ![r] =
         IF t = NoTask
         THEN Respond(q1, Err(500, "An unexpected error occurred"))
         ELSE [q1 EXCEPT !.pc = "commit",
                         !.dirty = Updated(IdentityMapped(q.task, t), q.body, now)]]
    /\ UNCHANGED <<now, cache, jwks, providerUp, tasks, created, cli, limiter>>

\* TaskRepository.update line 100: the commit writes the changed attributes
UpdateCommit(r) ==
    LET q == req[r] IN
    /\ q.pc = "commit" /\ q.op = "update"
    /\ tasks' = [tasks EXCEPT ![q.tid] = Flush(@, q.task, q.dirty)]
    /\ req' = [req EXCEPT ![r] = [q EXCEPT !.pc = "refresh"]]
    /\ UNCHANGED <<now, cache, jwks, providerUp, created, cli, limiter>>

\* TaskRepository.update line 101: refresh reads the row as it is stored
\* now; the route answers 200 with it.
UpdateRefresh(r) ==
    LET q == req[r]
        row == tasks[q.tid] IN
    /\ q.pc = "refresh" /\ q.op = "update"
    /\ req' = [req EXCEPT ![r] =
                 Respond([q EXCEPT !.task = row, !.dirty = NoTask],
                         Ok(200, row, "Task updated successfully"))]
    /\ UNCHANGED <<now, cache, jwks, providerUp, tasks, created, cli, limiter>>

\* delete_task: the SELECT of TaskService.delete_task line 135, then lines
\* 136-146 up to the SELECT of TaskRepository.soft_delete
DeleteFind(r) ==
    LET q == req[r]
        t == find_by_id(tasks, q.owner, q.tid)
        q1 == [q EXCEPT !.repoCalls = q.repoCalls + 1, !.task = t] IN
    /\ q.pc = "svc" /\ q.op = "delete"
    /\ req' = [req EXCEPT ![r] =
         IF t = NoTask THEN Respond(q1, NotFound)
         ELSE IF Deleted(t)
         THEN Respond(q1, Ok(200, NoTask, "Task deleted successfully"))
         ELSE [q1 EXCEPT !.pc = "repo"]]
    /\ UNCHANGED <<now, cache, jwks, providerUp, tasks, created, cli, limiter>>

\* (variant: the row is blanked when it is deleted)
SoftDeletedBlanked(t, at) ==
    [t EXCEPT !.status = "deleted", !.updated_at = at, !.title = Str(0, "", 0, 0),
              !.description = NoStr]

\* TaskRepository.soft_delete lines 116-117
SoftDeleted(t, at) == [t EXCEPT !.status = "deleted", !.updated_at = at]

\* TaskRepository.soft_delete: the SELECT of line 112, then lines 113-119
\* up to the await of the commit; updated_at is read from the clock here.
DeleteSelect(r) ==
    LET q == req[r]
        t == find_by_id(tasks, q.owner, q.tid)
        q1 == [q EXCEPT !.repoCalls = q.repoCalls + 1] IN
    /\ q.pc = "repo" /\ q.op = "delete"
    /\ req' = [req EXCEPT ![r] =
         IF t = NoTask
         THEN Respond(q1, Ok(200, NoTask, "Task deleted successfully"))
         ELSE [q1 EXCEPT !.pc = "commit",
                         !.dirty = SoftDeleted(IdentityMapped(q.task, t), now)]]
    /\ UNCHANGED <<now, cache, jwks, providerUp, tasks, created, cli, limiter>>

\* TaskRepository.soft_delete line 120: the commit writes the changed
\* attributes; the route answers 200.
DeleteCommit(r) ==
    LET q == req[r] IN
    /\ q.pc = "commit" /\ q.op = "delete"
    /\ tasks' = [tasks EXCEPT ![q.tid] = Flush(@, q.task, q.dirty)]
    /\ req' = [req EXCEPT ![r] =
                 Respond([q EXCEPT !.task = q.dirty, !.dirty = NoTask],
                         Ok(200, NoTask, "Task deleted successfully"))]
    /\ UNCHANGED <<now, cache, jwks, providerUp, created, cli, limiter>>

\* ------------------------------------------ task requests, one at a time
\* The tokens name the key the provider publishes throughout, so the retry of
\* lines 105-108 is not taken here; SpecAuth and SpecConc cover it.
TitleX == Str(0, "X", 1, 0)
TitleY == Str(1, "Y", 1, 1)
Blank  == Str(2, "", 0, 0)

ApiTokens == {TokA, TokNoExp, TokForged}
ApiCreateBodies == {CreateBody(TitleX, NoStr, Absent), CreateBody(Blank, NoStr, Absent),
                    CreateBody(TitleY, NoStr, Absent)}
ApiUpdateBodies == {UpdateBody(TitleY, NoStr, None, None),
                    UpdateBody(Blank, NoStr, None, None)}

Bodies(op, creates, updates) ==
    IF op = "create" THEN creates ELSE IF op = "update" THEN updates ELSE {NoBody}
Tids(op) == IF op \in {"get", "update", "delete"} THEN TaskIds \cup {BadId} ELSE {BadId}
Ops == {"list", "get", "create", "update", "delete"}

Next ==
    \/ \E raw \in RawHeaders(ApiTokens), op \in Ops, owner \in Users :
         \E tid \in Tids(op), body \in Bodies(op, ApiCreateBodies, ApiUpdateBodies) :
            ApiStart(1, raw, op, owner, tid, body)
    \/ ProviderServe(1)
    \/ FetchReturn1(1)
    \/ RouteEnter(1)
    \/ ListTasks(1)
    \/ GetTask(1)
    \/ CreateCommit(1)
    \/ CreateRefresh(1)
    \/ UpdateFind(1)
    \/ UpdateSelect(1)
    \/ UpdateCommit(1)
    \/ UpdateRefresh(1)
    \/ DeleteFind(1)
    \/ DeleteSelect(1)
    \/ DeleteCommit(1)
    \/ Recycle(1)
    \/ \E up \in BOOLEAN : SetProvider(up)

Spec == Init /\ [][Next]_vars

\* ------------------------------------------- the life of one owner's tasks
\* Requests of user A on A's own path, seconds apart, the provider reachable.
MaxLifeTasks == 1
MaxLifeTicks == 2

LifeTickSteps == {1}
LifeTokens    == {TokA}
DescD         == Str(1, "D", 1, 1)
LifeCreateBodies == {CreateBody(TitleX, NoStr, Absent)}
LifeUpdateBodies == {UpdateBody(TitleY, DescD, None, None),
                     UpdateBody(NoStr, NoStr, "completed", "high"),
                     UpdateBody(NoStr, NoStr, "deleted", None),
                     UpdateBody(NoStr, NoStr, "in_progress", None),
                     UpdateBody(NoStr, NoStr, None, None)}

\* the ids of the tasks that can exist, and one that never does
LifeTids(op) ==
    IF op \in {"get", "update", "delete"} THEN 1..(MaxLifeTasks + 1) ELSE {BadId}

NextLife ==
    \/ \E raw \in RawHeaders(LifeTokens), op \in Ops :
         \E tid \in LifeTids(op), body \in Bodies(op, LifeCreateBodies, LifeUpdateBodies) :
            /\ op = "create" => Len(tasks) < MaxLifeTasks
            /\ ApiStart(1, raw, op, "A", tid, body)
    \/ ProviderServe(1)
    \/ FetchReturn1(1)
    \/ RouteEnter(1)
    \/ ListTasks(1)
    \/ GetTask(1)
    \/ CreateCommit(1)
    \/ CreateRefresh(1)
    \/ UpdateFind(1)
    \/ UpdateSelect(1)
    \/ UpdateCommit(1)
    \/ UpdateRefresh(1)
    \/ DeleteFind(1)
    \/ DeleteSelect(1)
    \/ DeleteCommit(1)
    \/ Recycle(1)
    \/ \E d \in LifeTickSteps : now + d <= MaxLifeTicks * d /\ Tick(d)

SpecLife == Init /\ [][NextLife]_vars

\* ------------------------------------------------- create, then get
\* User A creates (slot 1) and, holding the response, asks for task ids
\* (slot 2); nothing else touches the store.
Title500  == Str(0, "L", 500, 0)
Title501  == Str(0, "L", 501, 0)
Title499p == Str(1, "L", 499, 1)
RoundCreateBodies == {CreateBody(TitleY, NoStr, Absent),
                      CreateBody(TitleX, DescD, "high"),
                      CreateBody(TitleX, NoStr, None),
                      CreateBody(Title500, NoStr, Absent),
                      CreateBody(Title501, NoStr, Absent),
                      CreateBody(Title499p, NoStr, Absent),
                      CreateBody(Blank, NoStr, Absent)}

NextRound ==
    \/ \E raw \in RawHeaders(LifeTokens), body \in RoundCreateBodies :
         /\ req[2].pc \in {"idle", "done"}
         /\ ApiStart(1, raw, "create", "A", BadId, body)
    \/ \E raw \in RawHeaders(LifeTokens), tid \in TaskIds :
         /\ req[1].pc \in {"idle", "done"}
         /\ ApiStart(2, raw, "get", "A", tid, NoBody)
    \/ \E r \in ReqIds : ProviderServe(r)
    \/ \E r \in ReqIds : FetchReturn1(r)
    \/ \E r \in ReqIds : RouteEnter(r)
    \/ CreateCommit(1)
    \/ CreateRefresh(1)
    \/ GetTask(2)
    \/ \E r \in ReqIds : Recycle(r)
    \/ \E d \in LifeTickSteps : now + d <= MaxLifeTicks * d /\ Tick(d)

SpecRound == Init /\ [][NextRound]_vars

\* ------------------------------------ a delete beside the owner's update
\* User A creates and updates tasks seconds apart (slot 1) while a delete
\* request of the same user (slot 2) runs between the storage calls.
NextRace ==
    \/ \E raw \in RawHeaders(LifeTokens), op \in {"create", "update"} :
         \E tid \in 1..MaxLifeTasks,
            body \in Bodies(op, LifeCreateBodies,
                            LifeUpdateBodies \cup {UpdateBody(NoStr, NoStr, "in-progress", None)}) :
            /\ op = "create" => Len(tasks) < MaxLifeTasks
            /\ ApiStart(1, raw, op, "A", IF op = "create" THEN BadId ELSE tid, body)
    \/ \E raw \in RawHeaders(LifeTokens), tid \in 1..MaxLifeTasks :
            ApiStart(2, raw, "delete", "A", tid, NoBody)
    \/ \E r \in ReqIds : ProviderServe(r)
    \/ \E r \in ReqIds : FetchReturn1(r)
    \/ \E r \in ReqIds : RouteEnter(r)
    \/ CreateCommit(1)
    \/ CreateRefresh(1)
    \/ UpdateFind(1)
    \/ UpdateSelect(1)
    \/ UpdateCommit(1)
    \/ UpdateRefresh(1)
    \/ DeleteFind(2)
    \/ DeleteSelect(2)
    \/ DeleteCommit(2)
    \/ \E r \in ReqIds : Recycle(r)
    \/ \E d \in LifeTickSteps : now + d <= MaxLifeTicks * d /\ Tick(d)

SpecRace == Init /\ [][NextRace]_vars

\* ------------------------------------------------ the order of the list
\* User A creates, updates, deletes and lists tasks, seconds apart.
NextOrder ==
    \/ \E raw \in RawHeaders(LifeTokens), op \in Ops \ {"get"} :
         \E tid \in (IF op \in {"update", "delete"} THEN TaskIds ELSE {BadId}),
            body \in Bodies(op, LifeCreateBodies, ApiUpdateBodies) :
            ApiStart(1, raw, op, "A", tid, body)
    \/ ProviderServe(1)
    \/ FetchReturn1(1)
    \/ RouteEnter(1)
    \/ ListTasks(1)
    \/ CreateCommit(1)
    \/ CreateRefresh(1)
    \/ UpdateFind(1)
    \/ UpdateSelect(1)
    \/ UpdateCommit(1)
    \/ UpdateRefresh(1)
    \/ DeleteFind(1)
    \/ DeleteSelect(1)
    \/ DeleteCommit(1)
    \/ Recycle(1)
    \/ \E d \in LifeTickSteps : now + d <= MaxLifeTicks * d /\ Tick(d)

SpecOrder == Init /\ [][NextOrder]_vars

\* ------------------------------------------------ the todo CLI (Phase 1)
\* One action is one run of `todo <command> ...`: main() builds a JSONStore
\* from tasks.json, the service applies the command, the store saves the
\* file, and the message is printed.

\* Task.validate: the title is not empty or whitespace, the status is one
\* of pending and completed
TaskValidate(t) ==
    /\ ~(StrLen(t.title) = 0 \/ StrLen(Strip(t.title)) = 0)
    /\ t.status \in {"pending", "completed"}

CliIds == 1..MaxCliTasks
Stored(store) == {i \in CliIds : store.tasks[i].status # "none"}

\* JSONStore._load_from_file: every saved task goes through Task.from_dict;
\* a ValueError from any of them leaves an empty store with next_id 1
load_from_file(file) ==
    IF \A i \in Stored(file) : TaskValidate(file.tasks[i]) THEN file ELSE EmptyStore

\* JSONStore.get_task
get_task(store, id) == IF id \in Stored(store) THEN store.tasks[id] ELSE NoCliTask

\* JSONStore.create_task
create_task(store, title, description, status) ==
    [tasks   |-> [store.tasks EXCEPT ![store.next_id] = CliTask(title, description, status)],
     next_id |-> store.next_id + 1]

\* JSONStore.update_task with the keys title and description
update_task(store, id, title, description) ==
    [store EXCEPT !.tasks[id].title = title, !.tasks[id].description = description]

\* JSONStore.update_task with the key status
update_status(store, id, status) == [store EXCEPT !.tasks[id].status = status]

\* JSONStore.delete_task
delete_task(store, id) == [store EXCEPT !.tasks[id] = NoCliTask]

\* TaskService.toggle_task_status, line 104
NewStatus(command, current) == IF current = "pending" THEN "completed" ELSE "pending"

\* an argument of the command line: int() accepts it or raises ValueError
IdArg(n) == [num |-> TRUE, n |-> n]
NotANumber == [num |-> FALSE, n |-> 0]

Out(text, id) == [text |-> text, id |-> id, lines |-> <<>>]
Line(id, t) ==
    [id |-> id, mark |-> IF t.status = "completed" THEN "done" ELSE "open",
     title |-> t.title, description |-> t.description]
RECURSIVE Lines(_, _)
Lines(store, from) ==
    IF from > MaxCliTasks THEN <<>>
    ELSE (IF from \in Stored(store) THEN <<Line(from, store.tasks[from])>> ELSE <<>>)
         \o Lines(store, from + 1)

ApiIdle == UNCHANGED <<now, cache, jwks, providerUp, req, tasks, created, limiter>>

\* todo add <title> [description]
CliAdd(title, description) ==
    LET store == load_from_file(cli.file) IN
    /\ store.next_id <= MaxCliTasks
    /\ IF StrLen(title) = 0 \/ StrLen(Strip(title)) = 0
       THEN cli' = [cli EXCEPT !.out = Out("Error: Title must not be empty or contain only whitespace", 0)]
       ELSE cli' = [file |-> create_task(store, title, description, "pending"),
                    out  |-> Out("Task added successfully with ID", store.next_id)]
    /\ ApiIdle

\* todo list
CliList ==
    LET store == load_from_file(cli.file) IN
    /\ cli' = [cli EXCEPT !.out =
                  IF Stored(store) = {} THEN Out("No tasks found.", 0)
                  ELSE [text |-> "tasks", id |-> 0, lines |-> Lines(store, 1)]]
    /\ ApiIdle

\* todo complete <task_id> and todo incomplete <task_id>
CliToggle(command, arg) ==
    LET store == load_from_file(cli.file) IN
    /\ command \in {"complete", "incomplete"}
    /\ IF ~arg.num
       THEN cli' = [cli EXCEPT !.out = Out("Task ID must be a number.", 0)]
       ELSE IF get_task(store, arg.n).status = "none"
       THEN cli' = [cli EXCEPT !.out = Out("not found.", arg.n)]
       ELSE cli' = [file |-> update_status(store, arg.n,
                                 NewStatus(command, get_task(store, arg.n).status)),
                    out  |-> Out(IF command = "complete" THEN "marked as completed."
                                 ELSE "marked as incomplete.", arg.n)]
    /\ ApiIdle

\* todo delete <task_id>
CliDelete(arg) ==
    LET store == load_from_file(cli.file) IN
    /\ IF ~arg.num
       THEN cli' = [cli EXCEPT !.out = Out("Task ID must be a number.", 0)]
       ELSE IF arg.n \notin Stored(store)
       THEN cli' = [cli EXCEPT !.out = Out("not found.", arg.n)]
       ELSE cli' = [file |-> delete_task(store, arg.n),
                    out  |-> Out("deleted successfully.", arg.n)]
    /\ ApiIdle

\* todo update <task_id> <title> [description]
CliUpdate(arg, title, description) ==
    LET store == load_from_file(cli.file) IN
    /\ IF ~arg.num
       THEN cli' = [cli EXCEPT !.out = Out("Task ID must be a number.", 0)]
       ELSE IF get_task(store, arg.n).status = "none"
       THEN cli' = [cli EXCEPT !.out = Out("not found.", arg.n)]
       ELSE cli' = [file |-> update_task(store, arg.n, title, description),
                    out  |-> Out("updated successfully.", arg.n)]
    /\ ApiIdle

CliTitles == {TitleX, TitleY, Blank}
CliDescs  == {NoText, DescD}
CliArgs   == {IdArg(n) : n \in 1..(MaxCliTasks + 1)} \cup {NotANumber}

NextCli ==
    \/ \E title \in CliTitles, description \in CliDescs : CliAdd(title, description)
    \/ CliList
    \/ \E command \in {"complete", "incomplete"}, arg \in CliArgs : CliToggle(command, arg)
    \/ \E arg \in CliArgs : CliDelete(arg)
    \/ \E arg \in CliArgs, title \in CliTitles, description \in CliDescs :
           CliUpdate(arg, title, description)

SpecCli == Init /\ [][NextCli]_vars

\* --------------------------------------- RateLimitMiddleware.dispatch
\* A request as dispatch reads it: the URL path, the user_id path parameter
\* (None when the scope has none) and the client host (None without a
\* client).
RlRequest(path, user_id, client) == [path |-> path, user_id |-> user_id, client |-> client]

\* line 55: request.url.path.startswith("/health"), the path being the
\* sequence of its characters
HealthPath(path) ==
    Len(path) >= 7 /\ SubSeq(path, 1, 7) = <<"/", "h", "e", "a", "l", "t", "h">>

\* lines 59-61
RlKey(rq) ==
    IF rq.user_id # None THEN rq.user_id
    ELSE IF rq.client # None THEN rq.client ELSE "unknown"

\* line 65: the defaultdict gives (0, time.time()) for a key it has not seen
EntryOf(counts, key, t) ==
    IF counts[key].present THEN counts[key]
    ELSE [present |-> TRUE, count |-> 0, start |-> t]

\* (variant: the window also ends at exactly 60 seconds)
WindowOverAt60(t, start) == t - start >= 60
\* line 68
WindowOver(t, start) == t - start > 60

\* lines 68-73: the window the request is counted in, and its count
Counted(e, t) ==
    IF WindowOver(t, e.start)
    THEN [present |-> TRUE, count |-> 1, start |-> t]
    ELSE [present |-> TRUE, count |-> e.count + 1, start |-> e.start]

\* line 77
LimitExceeded(count) == count > requests_per_minute

\* len(self.request_counts)
TableLen(counts, others) ==
    Cardinality({k \in RlKeys : counts[k].present}) + BagCardinality(others)

\* (variant: entries older than one minute are dropped)
StaleAfter60(t, start) == t - start > 60
\* line 100
Stale(t, start) == t - start > 120

\* _cleanup_old_entries
cleanup_old_entries(counts, others, t) ==
    [counts |-> [k \in RlKeys |-> IF counts[k].present /\ Stale(t, counts[k].start)
                                  THEN NoEntry ELSE counts[k]],
     others |-> [s \in {x \in BagToSet(others) : ~Stale(t, x)} |-> others[s]]]

\* The application's answer to an exception raised in the dispatch of a
\* middleware.  The middlewares added with add_middleware (main.py:79-100)
\* run outside the layer that turns an HTTPException into its response:
\* RequestLoggingMiddleware logs the exception and raises it again
\* (middleware.py:57-67), and the handler registered for Exception
\* (main.py:76) answers.
RaisedInMiddleware(code) == Err(500, "An unexpected error occurred")

\* dispatch(request, call_next): no await before call_next, so it runs whole
RlDispatch(rq) ==
    LET key == RlKey(rq)
        seen == EntryOf(limiter.counts, key, now).count
        e   == Counted(EntryOf(limiter.counts, key, now), now)
        counts1 == [limiter.counts EXCEPT ![key] = e]
    IN
    /\ IF HealthPath(rq.path)
       THEN limiter' = [limiter EXCEPT !.out = [key |-> "", result |-> "forwarded", seen |-> 0,
                                              cleaned |-> FALSE],
                                       !.response = [kind |-> "forwarded"]]
       ELSE IF LimitExceeded(e.count)
       THEN limiter' = [counts |-> counts1, others |-> limiter.others,
                        out |-> [key |-> key, result |-> "429", seen |-> seen,
                                cleaned |-> FALSE],
                        response |-> RaisedInMiddleware(429)]
       ELSE IF TableLen(counts1, limiter.others) > 1000
       THEN limiter' = [counts |-> cleanup_old_entries(counts1, limiter.others, now).counts,
                        others |-> cleanup_old_entries(counts1, limiter.others, now).others,
                        out |-> [key |-> key, result |-> "forwarded", seen |-> seen,
                                cleaned |-> TRUE],
                        response |-> [kind |-> "forwarded"]]
       ELSE limiter' = [counts |-> counts1, others |-> limiter.others,
                        out |-> [key |-> key, result |-> "forwarded", seen |-> seen,
                                cleaned |-> FALSE],
                        response |-> [kind |-> "forwarded"]]
    /\ UNCHANGED <<now, cache, jwks, providerUp, req, tasks, created, cli>>

\* dispatch for the one request of a further client, one that has no entry
\* yet (path "/", its own client host as the key): it is counted (1, now)
\* and forwarded, and the cleanup runs when the table has grown past 1000.
\* Up to OtherClients of them arrive in the first second and up to
\* MaxRlLate later.
RlOther ==
    LET e == Counted([present |-> TRUE, count |-> 0, start |-> now], now)
        others1 == limiter.others (+) SetToBag({e.start})
    IN
    /\ IF now = 0 THEN CopiesIn(0, limiter.others) < OtherClients
       ELSE BagCardinality(limiter.others) - CopiesIn(0, limiter.others) < MaxRlLate
    /\ ~LimitExceeded(e.count)
    /\ IF TableLen(limiter.counts, others1) > 1000
       THEN limiter' = [counts |-> cleanup_old_entries(limiter.counts, others1, now).counts,
                        others |-> cleanup_old_entries(limiter.counts, others1, now).others,
                        out |-> [key |-> "other", result |-> "forwarded", seen |-> 0,
                                cleaned |-> TRUE],
                        response |-> [kind |-> "forwarded"]]
       ELSE limiter' = [counts |-> limiter.counts, others |-> others1,
                        out |-> [key |-> "other", result |-> "forwarded", seen |-> 0,
                                cleaned |-> FALSE],
                        response |-> [kind |-> "forwarded"]]
    /\ UNCHANGED <<now, cache, jwks, providerUp, req, tasks, created, cli>>

\* "/api/A/tasks", "/", "/health/live", "/healthz", as the middleware gets
\* them: it runs before the router has matched the path, so the request has
\* no path parameter yet and every key is a client host or "unknown"
RlRequests ==
    {RlRequest(<<"/", "a", "p", "i", "/", "A", "/", "t", "a", "s", "k", "s">>, None, "h1"),
     RlRequest(<<"/">>, None, "h2"),
     RlRequest(<<"/">>, None, None),
     RlRequest(<<"/", "h", "e", "a", "l", "t", "h", "/", "l", "i", "v", "e">>, None, "h1"),
     RlRequest(<<"/", "h", "e", "a", "l", "t", "h", "z">>, None, "h1")}

\* the counter of the request's key is below the bound of the model
BelowCap(rq) ==
    HealthPath(rq.path)
    \/ limiter.counts[RlKey(rq)].count < requests_per_minute + MaxRlOver
    \/ WindowOver(now, limiter.counts[RlKey(rq)].start)

\* ------------------------------- the limiter, the requests of two clients
\* and of a request without a client
NextLimit ==
    \/ \E rq \in RlRequests : BelowCap(rq) /\ RlDispatch(rq)
    \/ \E d \in {60} : now + d <= MaxRlTicks * d /\ Tick(d)

SpecLimit == Init /\ [][NextLimit]_vars

\* ------------------- the limiter, one client among many: the table fills
NextClean ==
    \/ \E rq \in {RlRequest(<<"/">>, None, "h1")} : BelowCap(rq) /\ RlDispatch(rq)
    \/ RlOther
    \/ \E d \in {60} : now + d <= MaxRlTicks * d /\ Tick(d)

SpecClean == Init /\ [][NextClean]_vars

\* ======================================================== claims C1 .. C10
Finished(r) == req[r].pc \in {"verified", "done"}
Returned(r) == req[r].user.kind = "user"
\* the request waits for one of its storage calls
InStorage(r) == req[r].pc \in {"svc", "repo", "commit", "refresh"}

\* C1 as stated: whenever the verified subject differs from the path owner,
\* the request ends with 403 and makes no repository call.
C1_MismatchAlways403 ==
    \A r \in ReqIds :
        (req[r].op # "verify" /\ Returned(r) /\ req[r].user.id # req[r].owner) =>
            /\ req[r].repoCalls = 0
            /\ req[r].pc = "done" => req[r].result.code = 403

\* C1 amended: whenever the verified subject differs from the path owner the
\* request makes no repository call and never reaches the service; it ends
\* with 403 when its task id and body pass request validation and with 422
\* when they do not, whether or not the addressed task exists.
C1_MismatchForbidden ==
    \A r \in ReqIds :
        (req[r].op # "verify" /\ Returned(r) /\ req[r].user.id # req[r].owner) =>
            /\ req[r].repoCalls = 0
            /\ req[r].task = NoTask
            /\ ~InStorage(r)
            /\ req[r].pc = "done" =>
                 IF RequestValid(req[r].op, req[r].tid, req[r].body)
                 THEN req[r].result = Err(403, ForbiddenDetail(req[r].op))
                 ELSE req[r].result.code = 422

\* B's verified token on A's path, addressing a task that exists
C1_Witness ==
    /\ req[1].pc = "done" /\ req[1].op = "delete"
    /\ req[1].user.kind = "user" /\ req[1].user.id # req[1].owner
    /\ req[1].tid \in DOMAIN tasks
    /\ req[1].result.code = 403

\* C2: within a request the stages run in the order verification, ownership
\* check, repository access: the ownership check is made only on a returned
\* identity, a repository call is made only after the check passed, a request
\* whose verification failed ends with 401 or 503 without an ownership check
\* or a repository call, and only a request past both stages changes a task.
C2_StageOrder ==
    \A r \in ReqIds :
        /\ req[r].gate # "none" => Returned(r)
        /\ (req[r].repoCalls > 0 \/ InStorage(r)) =>
              /\ req[r].gate = "passed"
              /\ req[r].user.id = req[r].owner
        /\ (req[r].pc = "done" /\ ~Returned(r)) =>
              /\ req[r].result.code \in {401, 503}
              /\ req[r].gate = "none"
              /\ req[r].repoCalls = 0

C2_WritersPassedBoth ==
    tasks' # tasks =>
        \E r \in ReqIds : /\ req'[r] # req[r]
                          /\ req[r].user.kind = "user"
                          /\ req[r].gate = "passed"

C2_Ordering == []C2_StageOrder /\ [][C2_WritersPassedBoth]_vars

\* an update that went through the three stages and wrote
C2_Witness ==
    /\ req[1].pc = "done" /\ req[1].op = "update"
    /\ req[1].gate = "passed" /\ req[1].repoCalls = 2
    /\ req[1].result.code = 200

\* a request refused at the first stage while tasks exist
C2_WitnessRefused ==
    /\ req[1].pc = "done" /\ req[1].op = "update"
    /\ req[1].result.code = 401 /\ Len(tasks) > 0

\* C5: a request authenticated as A never returns a task of another owner
\* and no step of it changes a task of another owner, also when A addresses
\* another user's task by its id.
C5_ReturnsOwn ==
    \A r \in ReqIds :
        /\ (req[r].result.kind = "ok" /\ req[r].result.data # NoTask) =>
              req[r].result.data.user_id = req[r].user.id
        /\ req[r].result.kind = "list" =>
              \A i \in DOMAIN req[r].result.items :
                 req[r].result.items[i].user_id = req[r].user.id

C5_WritesOwn ==
    /\ \A i \in DOMAIN tasks : i \in DOMAIN tasks'
    /\ \A i \in DOMAIN tasks :
          tasks'[i] # tasks[i] =>
             \E r \in ReqIds : /\ req'[r] # req[r]
                               /\ req[r].user.kind = "user"
                               /\ req[r].user.id = tasks[i].user_id

C5_Isolation == []C5_ReturnsOwn /\ [][C5_WritesOwn]_vars

\* A asked for B's task by its id on A's own path
C5_Witness ==
    /\ req[1].pc = "done" /\ req[1].op = "update" /\ req[1].gate = "passed"
    /\ req[1].tid \in DOMAIN tasks
    /\ tasks[req[1].tid].user_id # req[1].user.id

\* C6: with N tasks created for the owner and none of them deleted, list
\* returns exactly N distinct tasks, all of that owner, and meta.total is the
\* number of returned tasks.
C6_ListCounts ==
    \A r \in ReqIds :
        (/\ req[r].pc = "done" /\ req[r].result.kind = "list"
         /\ \A i \in DOMAIN tasks :
               tasks[i].user_id = req[r].owner => tasks[i].status # "deleted") =>
            LET items == req[r].result.items IN
            /\ Len(items) = created[req[r].owner]
            /\ \A i \in DOMAIN items : items[i].user_id = req[r].owner
            /\ \A i, j \in DOMAIN items : i # j => items[i].id # items[j].id
            /\ req[r].result.total = Len(items)

\* both owners have tasks, one owner lists
C6_Witness ==
    /\ req[1].pc = "done" /\ req[1].result.kind = "list"
    /\ created["A"] >= 1 /\ created["B"] >= 1
    /\ Len(req[1].result.items) = created[req[1].owner]
    /\ \A i \in DOMAIN tasks : tasks[i].status # "deleted"

\* C7: on the caller's own path, get, update and delete of an id that belongs
\* to another user end exactly as for an id that does not exist: 404 with the
\* same message.
C7_ForeignIsNotFound ==
    \A r \in ReqIds :
        (/\ req[r].pc = "done" /\ req[r].gate = "passed"
         /\ req[r].op \in {"get", "update", "delete"}
         /\ (req[r].tid \notin DOMAIN tasks
               \/ tasks[req[r].tid].user_id # req[r].owner)) =>
            req[r].result = Err(404, "Task not found")

\* the id exists and belongs to the other user
C7_Witness ==
    /\ req[1].pc = "done" /\ req[1].gate = "passed" /\ req[1].op = "get"
    /\ req[1].tid \in DOMAIN tasks
    /\ tasks[req[1].tid].user_id # req[1].owner
    /\ req[1].result = Err(404, "Task not found")

\* the id does not exist
C7_WitnessAbsent ==
    /\ req[1].pc = "done" /\ req[1].gate = "passed" /\ req[1].op = "get"
    /\ req[1].tid \notin DOMAIN tasks /\ Len(tasks) > 0
    /\ req[1].result = Err(404, "Task not found")

\* C3: verify_token returns an identity only if every gate passed: the header
\* parsed, the kid names a key of the key set in use, the algorithm is RS256
\* and the signature is the one of the key named by kid, the token is not
\* expired at return time and sub is non-empty; the identity's id is sub.  A
\* token that passes every gate but has a missing or empty sub fails with the
\* 401 "missing user id".
C3_AllGates ==
    \A r \in ReqIds :
        /\ Returned(r) =>
             LET t == req[r].token IN
             /\ t.hdr
             /\ t.kid # NoKid /\ t.kid \in req[r].keys
             /\ t.alg = "RS256" /\ t.signer = t.kid
             /\ (t.exp = NoExp \/ t.exp > req[r].tdone)
             /\ t.sub # Absent /\ t.sub # ""
             /\ req[r].user.id = t.sub
        /\ (Finished(r) /\ req[r].token.sub \in {Absent, ""}) =>
             /\ ~Returned(r)
             /\ req[r].result.code \in {401, 503}
             /\ (/\ req[r].token.hdr /\ req[r].token.kid \in req[r].keys
                 /\ req[r].token.alg = "RS256"
                 /\ req[r].token.signer = req[r].token.kid
                 /\ req[r].token.exp > req[r].tdone)
                => req[r].result = Err(401, "Invalid token: missing user id")

C3_Witness ==
    /\ req[1].pc = "verified" /\ req[1].token = TokA /\ req[1].fetches = 1
    /\ req[1].user.id = "A"

C3_WitnessNoSub ==
    /\ req[1].pc = "done" /\ req[1].token = TokEmptySub
    /\ req[1].result = Err(401, "Invalid token: missing user id")

\* C4: a well-formed, RS256, unexpired token with a non-empty sub, signed by
\* the key its kid names, verifies whenever every fetch the call made was
\* answered with a key set that contains that kid (none made: the cache
\* served it), whatever the cache was at call time; the identity carries the
\* token's sub, email and name.
GoodToken(t, at) ==
    /\ t.hdr /\ t.kid # NoKid /\ t.alg = "RS256" /\ t.signer = t.kid
    /\ (t.exp = NoExp \/ t.exp > at)
    /\ t.sub # Absent /\ t.sub # ""

C4_ValidTokenVerifies ==
    \A r \in ReqIds :
        (Finished(r) /\ GoodToken(req[r].token, req[r].tdone) /\ req[r].envOk) =>
            /\ Returned(r)
            /\ req[r].user.id = req[r].token.sub
            /\ req[r].token.email # Absent => req[r].user.email = req[r].token.email
            /\ req[r].token.name # Absent => req[r].user.name = req[r].token.name

\* an expired cache, one refresh, identity returned
C4_Witness ==
    /\ req[1].pc = "verified" /\ req[1].token = TokA /\ req[1].envOk
    /\ req[1].cache0.set /\ req[1].t0 >= req[1].cache0.expires_at
    /\ req[1].user = User("A", "a@x", "Ann")

\* C8 as stated: a token whose kid is not in the cache at call time causes
\* exactly one fetch before verify_token returns or raises.
C8_ExactlyOneRefresh ==
    \A r \in ReqIds :
        (Finished(r) /\ req[r].token.hdr /\ req[r].token.kid \notin req[r].cache0.keys)
            => req[r].fetches = 1

\* C8 amended: for a token with a parsable header whose kid is not in the
\* cache at call time, verify_token makes exactly one fetch when the cache is
\* unexpired at call time, and one or two when it is empty or expired; never
\* none and never more than two.
C8_OneOrTwoRefreshes ==
    \A r \in ReqIds :
        (Finished(r) /\ req[r].token.hdr /\ req[r].token.kid \notin req[r].cache0.keys)
            => /\ req[r].fetches \in {1, 2}
               /\ (req[r].cache0.set /\ req[r].t0 < req[r].cache0.expires_at)
                    => req[r].fetches = 1

\* an unexpired cache without the kid: one fetch, then success
C8_Witness ==
    /\ req[1].pc = "verified" /\ req[1].token = TokB
    /\ req[1].cache0.set /\ req[1].t0 < req[1].cache0.expires_at
    /\ "k2" \notin req[1].cache0.keys
    /\ req[1].fetches = 1

\* C9 as stated: when a call ends with a failed refresh (503) and the snapshot
\* the cache held when the call began is still within its TTL, the cache
\* still holds exactly that snapshot.
C9_FailedRefreshKeepsCache ==
    \A r \in ReqIds :
        (/\ req[r].pc = "done" /\ req[r].result.kind = "error"
         /\ req[r].result.code = 503
         /\ req[r].cache0.set /\ req[r].tdone < req[r].cache0.expires_at)
            => cache = req[r].cache0

\* C10 as stated: at most one fetch to the identity provider is in flight.
C10_OneFetchInFlight ==
    Cardinality({r \in ReqIds : req[r].pc \in {"fetch1", "fetch2"}}) <= 1

\* ======================================================= claims C11 .. C20
\* C11: a verify_token call that finds the cache unexpired and holding the
\* token's kid makes no key-set fetch, and a fetch is only ever sent when the
\* cache is empty, expired or lacks the kid of the token being verified; so
\* successive verifications of cached kids within the TTL add no fetch to the
\* one that filled the cache.
C11_HitMakesNoFetch ==
    \A r \in ReqIds :
        (/\ req[r].pc # "idle"
         /\ req[r].cache0.set /\ req[r].t0 < req[r].cache0.expires_at
         /\ req[r].token.kid \in req[r].cache0.keys) =>
            /\ req[r].fetches = 0
            /\ req[r].pc \notin {"fetch1", "fetch2"}

C11_FetchOnlyOnMiss ==
    \A r \in ReqIds :
        req'[r].fetches > req[r].fetches =>
            \/ ~cache.set
            \/ now >= cache.expires_at
            \/ req'[r].token.kid \notin cache.keys

C11_CacheHit == []C11_HitMakesNoFetch /\ [][C11_FetchOnlyOnMiss]_vars

\* a second verification 150 s after the fetch that filled the cache
C11_Witness ==
    /\ req[1].pc = "verified" /\ req[1].token = TokA
    /\ req[1].cache0.set /\ req[1].cache0.expires_at = JWKS_CACHE_TTL
    /\ req[1].t0 = 150 /\ req[1].fetches = 0
    /\ cache = req[1].cache0

\* A finished call whose token had a parsable header, a kid found in the key
\* set in use, and an exp that had passed when the token was decoded.
ExpiredResolved(r) ==
    /\ Finished(r) /\ req[r].token.hdr
    /\ req[r].token.kid \in req[r].keys
    /\ req[r].token.exp # NoExp /\ req[r].token.exp <= req[r].tdone

\* C12 as stated: every expired token whose kid resolves to a key fails with
\* the 401 "Token has expired" whether or not its signature is valid.
C12_ExpiredAlwaysExpiry ==
    \A r \in ReqIds :
        ExpiredResolved(r) =>
            req[r].result = Err(401, "Token has expired. Please sign in again.")

\* C12 amended: an expired token whose kid resolves to a key fails with the
\* 401 "Token has expired" when it is an RS256 token signed by that key, and
\* with the 401 "Invalid token" when its algorithm or signature is not
\* accepted; it never yields an identity.
C12_ExpiredAfterSignature ==
    \A r \in ReqIds :
        ExpiredResolved(r) =>
            /\ ~Returned(r)
            /\ req[r].result =
                 IF req[r].token.alg = "RS256" /\ req[r].token.signer = req[r].token.kid
                 THEN Err(401, "Token has expired. Please sign in again.")
                 ELSE Err(401, "Invalid token")

\* a properly signed token verified at its exp second
C12_Witness ==
    /\ req[1].pc = "done" /\ req[1].token = TokSoon /\ req[1].tdone = 300
    /\ "k1" \in req[1].keys
    /\ req[1].result = Err(401, "Token has expired. Please sign in again.")

\* an expired token with a forged signature
C12_WitnessForged ==
    /\ req[1].pc = "done" /\ req[1].token = TokForgedOld /\ req[1].tdone >= 150
    /\ "k1" \in req[1].keys
    /\ req[1].result = Err(401, "Invalid token")

\* C13 as stated: a token whose header is unparsable or carries no kid ends
\* with 401 without any key-set fetch and without touching the cache, whether
\* or not the identity provider is reachable.
C13_MalformedBeforeCache ==
    \A r \in ReqIds :
        (req[r].pc # "idle" /\ (~req[r].token.hdr \/ req[r].token.kid = NoKid)) =>
            /\ req[r].fetches = 0
            /\ req[r].pc \notin {"fetch1", "fetch2"}
            /\ Finished(r) => (req[r].result.kind = "error" /\ req[r].result.code = 401)

\* C14: a verify_token call whose key-set fetch failed ends at once with the
\* 503 "Auth server unavailable" and without an identity; a 503 is raised
\* only by a failed fetch; and no 401 carries the 503's message, so a caller
\* can tell the two failure classes apart.
C14_FailedFetchIs503 ==
    \A r \in ReqIds :
        (/\ req[r].pc \in {"fetch1", "fetch2"}
         /\ req[r].resp.got /\ ~req[r].resp.ok
         /\ req'[r] # req[r]) =>
            /\ req'[r].pc = "done"
            /\ req'[r].user.kind # "user"
            /\ req'[r].result = Err(503, "Auth server unavailable. Please try again.")

C14_Only503OnFailedFetch ==
    \A r \in ReqIds :
        (/\ req[r].pc # "done" /\ req'[r].pc = "done"
         /\ req'[r].result.kind = "error" /\ req'[r].result.code = 503) =>
            /\ req[r].pc \in {"fetch1", "fetch2"}
            /\ req[r].resp.got /\ ~req[r].resp.ok

C14_Distinct ==
    \A r \in ReqIds :
        (req[r].pc = "done" /\ req[r].result.kind = "error") =>
            /\ req[r].result.code \in {401, 503}
            /\ req[r].result.code = 401 =>
                  req[r].result.detail # "Auth server unavailable. Please try again."

C14_Unavailable ==
    /\ []C14_Distinct
    /\ [][C14_FailedFetchIs503 /\ C14_Only503OnFailedFetch]_vars

\* the retry for an unknown kid failed although the first fetch succeeded
C14_Witness ==
    /\ req[1].pc = "done" /\ req[1].fetches = 2 /\ req[1].token = TokB
    /\ ~req[1].cache0.set
    /\ req[1].result = Err(503, "Auth server unavailable. Please try again.")

\* C15: deleted is terminal.  No step of any list, get, create, update or
\* delete request changes a field of a task whose status is deleted, and a
\* task's status becomes deleted only in the commit of a delete request that
\* addresses it; a task is never created deleted and no update sets it.
C15_DeletedIsFrozen ==
    \A i \in DOMAIN tasks :
        tasks[i].status = "deleted" => (i \in DOMAIN tasks' /\ tasks'[i] = tasks[i])

C15_OnlyDeleteDeletes ==
    \A i \in DOMAIN tasks' :
        (/\ tasks'[i].status = "deleted"
         /\ (i \in DOMAIN tasks => tasks[i].status # "deleted")) =>
            \E r \in ReqIds : /\ req[r].op = "delete" /\ req[r].pc = "commit"
                              /\ req[r].tid = i /\ req'[r].pc = "done"

C15_Terminal == [][C15_DeletedIsFrozen /\ C15_OnlyDeleteDeletes]_vars

\* a status update sent to a deleted task, some time after its deletion
C15_Witness ==
    /\ req[1].pc = "done" /\ req[1].op = "update" /\ req[1].tid = 1
    /\ req[1].body.status = "completed"
    /\ 1 \in DOMAIN tasks /\ tasks[1].status = "deleted"
    /\ tasks[1].priority = "medium" /\ now > tasks[1].updated_at

\* an update asking for status deleted is turned away, the task stays pending
C15_WitnessUpdate ==
    /\ req[1].pc = "done" /\ req[1].op = "update" /\ req[1].tid = 1
    /\ req[1].body.status = "deleted" /\ req[1].result.code = 422
    /\ 1 \in DOMAIN tasks /\ tasks[1].status = "pending"

\* An authenticated update request of the owner that addresses a deleted task.
UpdateOfDeleted(r) ==
    /\ req[r].op = "update" /\ Returned(r) /\ req[r].user.id = req[r].owner
    /\ req[r].tid \in DOMAIN tasks
    /\ tasks[req[r].tid].user_id = req[r].owner
    /\ tasks[req[r].tid].status = "deleted"

\* C16 as stated: an update of a deleted task ends with 400 whatever the
\* payload is, and no step of it changes any field of any record,
\* updated_at included.
C16_Refused400 ==
    \A r \in ReqIds :
        (UpdateOfDeleted(r) /\ req[r].pc = "done") =>
            (req[r].result.kind = "error" /\ req[r].result.code = 400)

C16_NoWrite ==
    \A r \in ReqIds :
        (UpdateOfDeleted(r) /\ req'[r] # req[r]) => tasks' = tasks

C16_Always400 == []C16_Refused400 /\ [][C16_NoWrite]_vars

\* An authenticated delete request of the owner that addresses a task of his.
DeleteOfOwn(r) ==
    /\ req[r].op = "delete" /\ Returned(r) /\ req[r].user.id = req[r].owner
    /\ req[r].tid \in DOMAIN tasks
    /\ tasks[req[r].tid].user_id = req[r].owner

\* C17: every delete of an existing task answers 200 "Task deleted
\* successfully" and leaves the task with status deleted, the first delete as
\* well as every later one; a delete that addresses a task already deleted
\* changes no field of any record, updated_at included.
C17_AlwaysSuccess ==
    \A r \in ReqIds :
        (DeleteOfOwn(r) /\ req[r].pc = "done") =>
            /\ req[r].result = Ok(200, NoTask, "Task deleted successfully")
            /\ tasks[req[r].tid].status = "deleted"

C17_RepeatIsNoOp ==
    \A r \in ReqIds :
        (/\ DeleteOfOwn(r) /\ tasks[req[r].tid].status = "deleted"
         /\ req'[r] # req[r]) => tasks' = tasks

C17_Idempotent == []C17_AlwaysSuccess /\ [][C17_RepeatIsNoOp]_vars

\* a repeated delete, later than the first: success, updated_at not bumped
C17_Witness ==
    /\ req[1].pc = "done" /\ req[1].op = "delete" /\ req[1].tid = 1
    /\ req[1].task # NoTask /\ req[1].task.status = "deleted"
    /\ req[1].repoCalls = 1
    /\ req[1].result = Ok(200, NoTask, "Task deleted successfully")
    /\ 1 \in DOMAIN tasks /\ tasks[1].status = "deleted"
    /\ now > tasks[1].updated_at

\* C18: no step removes a record from storage or changes its id, and the
\* commit of a delete leaves the record in place with status deleted and its
\* id, owner, title, description, priority and created_at as they were.
C18_NothingRemoved ==
    /\ Len(tasks') >= Len(tasks)
    /\ \A i \in DOMAIN tasks : i \in DOMAIN tasks' /\ tasks'[i].id = tasks[i].id

C18_DeleteKeepsFields ==
    \A r \in ReqIds :
        (/\ req[r].op = "delete" /\ req[r].pc = "commit" /\ req'[r].pc = "done") =>
            LET old == tasks[req[r].tid]
                new == tasks'[req[r].tid] IN
            /\ req'[r].result.kind = "ok" /\ req'[r].result.code = 200
            /\ new.status = "deleted"
            /\ new.id = old.id /\ new.user_id = old.user_id
            /\ new.title = old.title /\ new.description = old.description
            /\ new.priority = old.priority /\ new.created_at = old.created_at
            /\ \A i \in DOMAIN tasks : i # req[r].tid => tasks'[i] = tasks[i]

C18_SoftDelete == [][C18_NothingRemoved /\ C18_DeleteKeepsFields]_vars

\* the first delete of a task that had been given a new title and description
C18_Witness ==
    /\ req[1].pc = "done" /\ req[1].op = "delete" /\ req[1].tid = 1
    /\ req[1].repoCalls = 2 /\ req[1].result.code = 200
    /\ 1 \in DOMAIN tasks /\ tasks[1].status = "deleted"
    /\ tasks[1].title = Strip(TitleY) /\ tasks[1].description = Strip(DescD)
    /\ tasks[1].priority = "medium" /\ tasks[1].updated_at > tasks[1].created_at

\* C19: a task's owner is the path owner of the create request that inserted
\* it and no later step changes it: every new row carries the owner of the
\* creating request, every existing row keeps its user_id in every step, and
\* so each owner holds as many rows as create requests succeeded on his path.
C19_OwnerKept ==
    /\ \A i \in DOMAIN tasks :
          i \in DOMAIN tasks' /\ tasks'[i].user_id = tasks[i].user_id
    /\ \A i \in DOMAIN tasks' :
          i \notin DOMAIN tasks =>
             \E r \in ReqIds : /\ req[r].op = "create" /\ req[r].pc = "commit"
                               /\ req'[r].pc = "refresh"
                               /\ tasks'[i].user_id = req[r].owner

C19_OwnersMatchCreates ==
    \A u \in Users :
        Cardinality({i \in DOMAIN tasks : tasks[i].user_id = u}) = created[u]

C19_OwnerFixed == []C19_OwnersMatchCreates /\ [][C19_OwnerKept]_vars

\* A's task after an update and a delete, next to a task of B
C19_Witness ==
    /\ req[1].pc = "done" /\ req[1].op = "delete" /\ req[1].result.code = 200
    /\ Len(tasks) = 2
    /\ tasks[1].user_id = "A" /\ tasks[1].title = Strip(TitleY)
    /\ tasks[1].status = "deleted"
    /\ tasks[2].user_id = "B"
    /\ created["A"] = 1 /\ created["B"] = 1

\* C20: the commit of an update gives each provided field the request's
\* value (title and description stripped, an empty description stored as
\* none), writes the updated_at the request read from the clock once it had
\* found the record, and leaves every field not provided, as well as id,
\* owner and created_at, and every other record, unchanged; the response
\* carries the stored record.
C20_PartialUpdate ==
    \A r \in ReqIds :
        /\ (/\ req[r].op = "update" /\ req[r].pc = "repo" /\ req'[r].pc = "commit") =>
               /\ req'[r].dirty.updated_at = now
               /\ tasks' = tasks
        /\ (/\ req[r].op = "update" /\ req[r].pc = "commit" /\ req'[r].pc = "refresh") =>
            LET b   == req[r].body
                old == tasks[req[r].tid]
                new == tasks'[req[r].tid] IN
            /\ new.title = IF b.title # NoStr THEN Str(0, b.title.text, b.title.n, 0)
                           ELSE old.title
            /\ new.description =
                  IF b.description = NoStr THEN old.description
                  ELSE IF b.description.lead + b.description.n + b.description.trail = 0
                  THEN NoStr
                  ELSE Str(0, b.description.text, b.description.n, 0)
            /\ new.status = IF b.status # None THEN b.status ELSE old.status
            /\ new.priority = IF b.priority # None THEN b.priority ELSE old.priority
            /\ new.updated_at = req[r].dirty.updated_at
            /\ new.updated_at >= old.updated_at /\ new.updated_at <= now
            /\ new.id = old.id /\ new.user_id = old.user_id
            /\ new.created_at = old.created_at
            /\ \A i \in DOMAIN tasks : i # req[r].tid => tasks'[i] = tasks[i]
            /\ DOMAIN tasks' = DOMAIN tasks
        /\ (/\ req[r].op = "update" /\ req[r].pc = "refresh" /\ req'[r].pc = "done") =>
               /\ tasks' = tasks
               /\ req'[r].result.kind = "ok" /\ req'[r].result.code = 200
               /\ req'[r].result.data = tasks[req[r].tid]

C20_FrameOfUpdate == [][C20_PartialUpdate]_vars

\* a status-and-priority update, later than the creation, on a task whose
\* title and description had been set before
C20_Witness ==
    /\ req[1].pc = "done" /\ req[1].op = "update" /\ req[1].tid = 1
    /\ req[1].result.kind = "ok" /\ req[1].result.code = 200
    /\ req[1].body = UpdateBody(NoStr, NoStr, "completed", "high")
    /\ tasks[1].title = Strip(TitleY) /\ tasks[1].description = Strip(DescD)
    /\ tasks[1].status = "completed" /\ tasks[1].priority = "high"
    /\ tasks[1].updated_at = now /\ tasks[1].created_at < now

\* ======================================================= claims C21 .. C30
\* C21: a request that ends with a failure response has written nothing, and
\* a write is all-or-nothing: the store changes only in the commit of a
\* create, update or delete request, that step changes one record only (or
\* appends one) and leaves it with every field, updated_at included, as the
\* request prepared it, and a request that committed ends with a success
\* response.
C21_FailureWritesNothing ==
    \A r \in ReqIds :
        (req[r].pc # "done" /\ req'[r].pc = "done" /\ req'[r].result.kind = "error")
            => /\ tasks' = tasks
               /\ req[r].pc \notin {"commit", "refresh"}

C21_WriteIsWhole ==
    tasks' # tasks =>
        \E r \in ReqIds :
            /\ req[r].pc = "commit" /\ req'[r].pc \in {"refresh", "done"}
            /\ req[r].op \in {"create", "update", "delete"}
            /\ req'[r].pc = "done" => req'[r].result.kind = "ok"
            /\ LET i == IF req[r].op = "create" THEN Len(tasks) + 1 ELSE req[r].tid IN
               /\ DOMAIN tasks' = DOMAIN tasks \cup {i}
               /\ \A j \in DOMAIN tasks : j # i => tasks'[j] = tasks[j]
               /\ tasks'[i] = [req[r].dirty EXCEPT !.id = i]
               /\ tasks'[i].updated_at <= now

C21_Atomic == [][C21_FailureWritesNothing /\ C21_WriteIsWhole]_vars

\* a valid update refused by the service because the task is deleted
C21_Witness ==
    /\ req[1].pc = "done" /\ req[1].op = "update" /\ req[1].repoCalls = 1
    /\ req[1].result = Err(400, "Cannot update deleted task")
    /\ Len(tasks) = 2 /\ tasks[req[1].tid].status = "deleted"

\* C22 as stated: in every state each task's updated_at is at or after its
\* created_at; no step moves a task's updated_at backwards or changes its
\* created_at; and every update, and the delete that moves a task to
\* deleted, reads updated_at from the clock in the course of the mutation
\* and stores a value no later than the clock.
C22_NotBeforeCreation ==
    \A i \in DOMAIN tasks :
        /\ tasks[i].updated_at >= tasks[i].created_at
        /\ tasks[i].updated_at <= now

C22_NeverBack ==
    \A i \in DOMAIN tasks :
        /\ tasks'[i].updated_at >= tasks[i].updated_at
        /\ tasks'[i].created_at = tasks[i].created_at

C22_MutationStamps ==
    \A r \in ReqIds :
        /\ (/\ req[r].op \in {"update", "delete"} /\ req[r].pc = "repo"
             /\ req'[r].pc = "commit") =>
               req'[r].dirty.updated_at = now
        /\ (/\ req[r].op \in {"update", "delete"} /\ req[r].pc = "commit"
             /\ req'[r].pc # "commit") =>
               tasks'[req[r].tid].updated_at <= now

C22_Timestamps ==
    /\ []C22_NotBeforeCreation
    /\ [][C22_NeverBack /\ C22_MutationStamps]_vars

\* C23 as stated: an update of a non-deleted task of the owner with status
\* pending, in_progress or completed succeeds and stores that status, and
\* every other status value is turned away as a validation failure.
C23_StatusValues ==
    \A r \in ReqIds :
        (/\ req[r].pc = "done" /\ req[r].op = "update"
         /\ Returned(r) /\ req[r].user.id = req[r].owner
         /\ req[r].tid \in DOMAIN tasks
         /\ tasks[req[r].tid].user_id = req[r].owner
         /\ req[r].body.status # None) =>
            IF req[r].body.status \in {"pending", "in_progress", "completed"}
            THEN tasks[req[r].tid].status # "deleted" =>
                    /\ req[r].result.kind = "ok"
                    /\ tasks[req[r].tid].status = req[r].body.status
            ELSE req[r].result.kind = "error" /\ req[r].result.code = 422

\* C24: a list result holds no task whose status is deleted and holds every
\* task of the path owner that is not deleted, each once: a deleted task is
\* in no later list, the others stay.
C24_ListHidesDeleted ==
    \A r \in ReqIds :
        (req[r].pc = "done" /\ req[r].result.kind = "list") =>
            LET items == req[r].result.items IN
            /\ \A k \in DOMAIN items : items[k].status # "deleted"
            /\ {items[k].id : k \in DOMAIN items} =
                  {i \in DOMAIN tasks : /\ tasks[i].user_id = req[r].owner
                                        /\ tasks[i].status # "deleted"}
            /\ \A k \in DOMAIN items : items[k] = tasks[items[k].id]
            /\ \A k, l \in DOMAIN items : k # l => items[k].id # items[l].id

\* the owner has two tasks, one of them deleted: the list shows the other
C24_Witness ==
    /\ req[1].pc = "done" /\ req[1].result.kind = "list"
    /\ Len(tasks) = 2
    /\ tasks[1].user_id = req[1].owner /\ tasks[2].user_id = req[1].owner
    /\ tasks[1].status = "deleted" /\ tasks[2].status # "deleted"
    /\ Len(req[1].result.items) = 1 /\ req[1].result.items[1].id = 2

\* A finished request of the owner, past the ownership check, that addresses
\* one of his tasks.
OwnTaskRequest(r, op) ==
    /\ req[r].pc = "done" /\ req[r].op = op /\ req[r].gate = "passed"
    /\ req[r].tid \in DOMAIN tasks
    /\ tasks[req[r].tid].user_id = req[r].owner

\* C25: get of an id that belongs to the path owner returns 200 with the
\* stored record, whatever its status is, deleted included.
C25_GetReturnsOwn ==
    \A r \in ReqIds :
        OwnTaskRequest(r, "get") =>
            /\ req[r].result.kind = "ok" /\ req[r].result.code = 200
            /\ req[r].result.data = tasks[req[r].tid]

\* get of a task after its deletion
C25_Witness ==
    /\ req[1].pc = "done" /\ req[1].op = "get" /\ req[1].tid = 1
    /\ req[1].result.kind = "ok" /\ req[1].result.code = 200
    /\ req[1].result.data.status = "deleted"
    /\ req[1].result.data.user_id = req[1].owner

\* C26 as stated: neither list, nor get, nor update returns or acts on a task
\* whose status is deleted.
C26_DeletedExcluded ==
    \A r \in ReqIds :
        /\ (req[r].pc = "done" /\ req[r].result.kind = "list") =>
              \A k \in DOMAIN req[r].result.items :
                 req[r].result.items[k].status # "deleted"
        /\ (OwnTaskRequest(r, "get") /\ tasks[req[r].tid].status = "deleted") =>
              req[r].result.kind = "error"
        /\ (OwnTaskRequest(r, "update") /\ tasks[req[r].tid].status = "deleted") =>
              req[r].result.kind = "error"

\* C26 amended: list returns no deleted task and update refuses a deleted
\* task with the 400 "Cannot update deleted task"; get is not among them: it
\* returns the deleted record.
C26_DeletedExcludedFromListAndUpdate ==
    \A r \in ReqIds :
        /\ (req[r].pc = "done" /\ req[r].result.kind = "list") =>
              \A k \in DOMAIN req[r].result.items :
                 req[r].result.items[k].status # "deleted"
        /\ (OwnTaskRequest(r, "update") /\ tasks[req[r].tid].status = "deleted") =>
              req[r].result = Err(400, "Cannot update deleted task")
        /\ (OwnTaskRequest(r, "get") /\ tasks[req[r].tid].status = "deleted") =>
              (req[r].result.kind = "ok" /\ req[r].result.data.status = "deleted")

\* the owner's only task is deleted: his list is empty
C26_Witness ==
    /\ req[1].pc = "done" /\ req[1].result.kind = "list"
    /\ Len(tasks) = 1 /\ tasks[1].status = "deleted"
    /\ tasks[1].user_id = req[1].owner
    /\ req[1].result.items = <<>> /\ req[1].result.total = 0

\* C27: when a get of the id a create just returned, on the same path and
\* with no request in between, reaches the store, it answers 200 with the
\* record the create returned: the created title, status pending, the given
\* priority or medium when none (or null) was given, the path owner as owner,
\* and created_at and updated_at set to the time of the creation.
C27_GetAfterCreate ==
    (/\ req[1].pc = "done" /\ req[1].op = "create" /\ req[1].result.kind = "ok"
     /\ req[2].op = "get" /\ req[2].pc = "svc" /\ req'[2].pc = "done"
     /\ req[2].tid = req[1].result.data.id
     /\ req[2].owner = req[1].owner) =>
        LET d == req'[2].result.data
            b == req[1].body IN
        /\ req'[2].result.kind = "ok" /\ req'[2].result.code = 200
        /\ d = req[1].result.data
        /\ d.title = b.title
        /\ d.status = "pending"
        /\ d.priority = (IF b.priority = None THEN "medium" ELSE b.priority)
        /\ d.priority \in {"low", "medium", "high"}
        /\ d.user_id = req[1].owner
        /\ d.created_at >= 0 /\ d.updated_at = d.created_at /\ d.created_at <= now

C27_RoundTrip == [][C27_GetAfterCreate]_vars

\* created with a null priority at second 1, read back: priority medium
C27_Witness ==
    /\ req[1].pc = "done" /\ req[1].op = "create" /\ req[1].result.kind = "ok"
    /\ req[1].body.priority = None
    /\ req[2].pc = "done" /\ req[2].op = "get"
    /\ req[2].result.kind = "ok" /\ req[2].result.data = req[1].result.data
    /\ req[2].result.data.priority = "medium"
    /\ req[2].result.data.created_at = 1

\* C28: every stored title is non-blank and has no leading or trailing
\* whitespace; the title a create or update stores is the submitted title
\* with its surrounding whitespace removed; and a request whose title is
\* whitespace only is rejected (422) and stores nothing.
C28_TitlesTrimmed ==
    /\ \A i \in DOMAIN tasks :
          /\ tasks[i].title.lead = 0 /\ tasks[i].title.trail = 0
          /\ tasks[i].title.n > 0
    /\ \A r \in ReqIds :
          (/\ req[r].pc = "done" /\ Returned(r)
           /\ req[r].op \in {"create", "update"}
           /\ req[r].body.title.n = 0) =>
              (req[r].result.kind = "error" /\ req[r].result.code = 422)

C28_StoresTrimmedSubmission ==
    \A r \in ReqIds :
        /\ (/\ req[r].pc = "verified" /\ req'[r].pc \in {"svc", "commit"}
             /\ req[r].op \in {"create", "update"} /\ req[r].body.title # NoStr) =>
               req'[r].body.title =
                  Str(0, req[r].body.title.text, req[r].body.title.n, 0)
        /\ (/\ req[r].pc = "refresh" /\ req'[r].pc = "done"
             /\ req[r].op \in {"create", "update"} /\ req[r].body.title # NoStr) =>
               /\ req'[r].result.data.title =
                     Str(0, req[r].body.title.text, req[r].body.title.n, 0)
               /\ tasks'[req'[r].result.data.id].title = req'[r].result.data.title

C28_Titles == []C28_TitlesTrimmed /\ [][C28_StoresTrimmedSubmission]_vars

\* two tasks whose padded titles were stored trimmed, the second by an update
C28_Witness ==
    /\ req[1].pc = "done" /\ req[1].op = "update" /\ req[1].result.kind = "ok"
    /\ Len(tasks) = 2
    /\ tasks[1].title = Str(0, "Y", 1, 0) /\ tasks[2].title = Str(0, "Y", 1, 0)
    /\ req[1].tid = 2 /\ created[req[1].owner] = 1

\* a whitespace-only title is turned away
C28_WitnessBlank ==
    /\ req[1].pc = "done" /\ req[1].op = "create" /\ Returned(1)
    /\ req[1].body.title = Blank /\ req[1].result.code = 422

\* C29 as stated: a create by the owner succeeds exactly when the trimmed
\* title has between 1 and 500 characters, and is a validation failure
\* otherwise; whitespace around the title does not count.
C29_TrimmedLength ==
    \A r \in ReqIds :
        (/\ req[r].pc = "done" /\ req[r].op = "create"
         /\ Returned(r) /\ req[r].user.id = req[r].owner) =>
            IF req[r].body.title.n >= 1 /\ req[r].body.title.n <= 500
            THEN req[r].result.kind = "ok" /\ req[r].result.code = 201
            ELSE req[r].result.kind = "error" /\ req[r].result.code = 422

\* C30 as stated: in the todo CLI, `complete <task_id>` on an existing task
\* leaves the task completed and `incomplete <task_id>` leaves it pending,
\* whatever its status was before, and the message printed names the
\* status the task ends in.
C30_CommandSetsStatus ==
    [][\A id \in CliIds :
          (id \in {i \in CliIds : load_from_file(cli.file).tasks[i].status # "none"}) =>
             /\ CliToggle("complete", IdArg(id)) =>
                   /\ cli'.file.tasks[id].status = "completed"
                   /\ cli'.out.text = "marked as completed." /\ cli'.out.id = id
             /\ CliToggle("incomplete", IdArg(id)) =>
                   /\ cli'.file.tasks[id].status = "pending"
                   /\ cli'.out.text = "marked as incomplete." /\ cli'.out.id = id]_vars

\* ======================================================= claims C31 .. C40
\* C31: the key cache's expiry is looked at only when a lookup happens.  A
\* verify_token call uses the cached snapshot exactly when one exists and the
\* clock is strictly before its expires_at, and sends the GET otherwise; the
\* passing of time alone never changes the cache; a successful refresh
\* installs the fetched keys with expires_at 300 seconds after the clock
\* value its lookup read.
C31_LookupStep ==
    \A r \in ReqIds :
        /\ (req[r].pc = "idle" /\ req'[r].pc # "idle") =>
              /\ (req'[r].pc = "fetch1") <=> ~(cache.set /\ now < cache.expires_at)
              /\ (cache.set /\ now < cache.expires_at) => req'[r].keys = cache.keys
        /\ (req'[r].pc \in {"fetch1", "fetch2"} /\ req'[r].pc # req[r].pc) =>
              req'[r].now_l = now

C31_NoTimer == now' # now => cache' = cache

C31_InstallStep ==
    (cache' # cache /\ cache'.set) =>
        \E r \in ReqIds :
            /\ req[r].pc \in {"fetch1", "fetch2"} /\ req[r].resp.got /\ req[r].resp.ok
            /\ req'[r].pc \notin {"fetch1", "fetch2"}
            /\ cache' = [keys |-> req[r].resp.keys,
                         expires_at |-> req[r].now_l + 300, set |-> TRUE]

C31_ExpiryAtLookup == [][C31_LookupStep /\ C31_NoTimer /\ C31_InstallStep]_vars

\* a call that arrived at the instant the snapshot expired refreshed it, and
\* the new snapshot is stamped from the arrival, not from the later install
C31_Witness ==
    /\ req[1].pc = "verified" /\ req[1].fetches = 1
    /\ req[1].cache0.set /\ req[1].cache0.expires_at = 300 /\ req[1].t0 = 300
    /\ req[1].tdone = 450
    /\ cache.set /\ cache.expires_at = 600

\* C32: the key cache is replaced as a whole.  In every state, whatever
\* calls are in flight, it is empty or one complete snapshot: a key set the
\* provider published as one response, with an expiry 300 seconds after a
\* clock reading.  Every change of the cache either empties it or installs
\* exactly the keys of one call's response with that call's expiry, and a
\* call that is abandoned or whose refresh fails leaves the cache as it was.
C32_WholeSnapshot ==
    \/ cache = [keys |-> {}, expires_at |-> -1, set |-> FALSE]
    \/ /\ cache.set
       /\ cache.keys \in SnapJwksSets
       /\ cache.expires_at - 300 \in 0..now

C32_ReplaceStep ==
    /\ cache' # cache =>
          \/ cache' = [keys |-> {}, expires_at |-> -1, set |-> FALSE]
          \/ \E r \in ReqIds :
                /\ req[r].pc \in {"fetch1", "fetch2"}
                /\ req[r].resp.got /\ req[r].resp.ok /\ ~req[r].resp.bad
                /\ cache' = [keys |-> req[r].resp.keys,
                             expires_at |-> req[r].now_l + 300, set |-> TRUE]
    /\ \A r \in ReqIds :
          (/\ req[r].pc \in {"fetch1", "fetch2"}
           /\ \/ req'[r].pc = "idle"
              \/ req'[r].pc = "done" /\ req'[r].result.code \in {500, 503})
             => cache' = cache

C32_Snapshot == []C32_WholeSnapshot /\ [][C32_ReplaceStep]_vars

\* the cache holds the second key set alone, installed over the first, while
\* another call's refresh has received an unusable body
C32_Witness ==
    /\ cache.set /\ cache.keys = {"k2"} /\ cache.expires_at = 600
    /\ req[1].pc = "verified" /\ req[1].cache0.keys = {"k1"} /\ req[1].cache0.set
    /\ req[2].pc = "fetch1" /\ req[2].resp.got /\ req[2].resp.bad

\* C33 as stated: rate limiter.  A request for a key whose window is open
\* (an entry exists and at most 60 seconds passed since its start) is
\* counted in that window and is forwarded exactly when fewer than
\* requests_per_minute requests were counted before it, and otherwise it is
\* rejected and answered with status 429; the window start stays.  Only a
\* request arriving more than 60 seconds after the window start (or the
\* first request of a key) starts a window, with count 1, and it is
\* forwarded.  A request to a /health path is forwarded and leaves every
\* counter alone.
C33_DispatchStep ==
    limiter' # limiter =>
        /\ limiter'.out.key = "" =>
              /\ limiter'.counts = limiter.counts
              /\ limiter'.others = limiter.others
              /\ limiter'.out.result = "forwarded"
        /\ \A k \in RlKeys :
              limiter'.out.key = k =>
                 LET e == limiter.counts[k] IN
                 IF e.present /\ now - e.start <= 60
                 THEN /\ limiter'.counts[k] =
                            [present |-> TRUE, count |-> e.count + 1, start |-> e.start]
                      /\ limiter'.out.result =
                            IF e.count < requests_per_minute THEN "forwarded" ELSE "429"
                 ELSE /\ limiter'.counts[k] =
                            [present |-> TRUE, count |-> 1, start |-> now]
                      /\ limiter'.out.result = "forwarded"

\* the number of requests forwarded in a window is the count, up to the
\* limit, and a request over the limit is answered with status 429
C33_LastOutcome ==
    limiter.out.key \in RlKeys =>
        /\ limiter.counts[limiter.out.key].present
        /\ limiter.out.result = "429" <=>
              limiter.counts[limiter.out.key].count > requests_per_minute
        /\ limiter.out.result = "429" =>
              limiter.response.kind = "error" /\ limiter.response.code = 429
        /\ limiter.out.result = "forwarded" => limiter.response.kind = "forwarded"

C33_RateLimit == []C33_LastOutcome /\ [][C33_DispatchStep]_vars

\* C39: a client that was rejected is forwarded again by its first request
\* arriving more than 60 seconds after the start of the window it was
\* rejected in, however many requests that window counted: a rejected
\* request leaves the window start where it was, and a request that finds no
\* open window is forwarded with count 1.  The cleanup removes no counter
\* whose window started 120 seconds ago or less.
C39_DispatchStep ==
    \A k \in RlKeys :
        (limiter' # limiter /\ limiter'.out.key = k) =>
            LET e == limiter.counts[k] IN
            /\ limiter'.out.result = "429" => e.present /\ limiter'.counts[k].start = e.start
            /\ (e.present /\ e.count > requests_per_minute /\ now - e.start > 60) =>
                  /\ limiter'.out.result = "forwarded"
                  /\ limiter'.counts[k] = [present |-> TRUE, count |-> 1, start |-> now]

C39_CleanupStep ==
    /\ \A k \in RlKeys :
          (limiter.counts[k].present /\ ~limiter'.counts[k].present) =>
              now - limiter.counts[k].start > 120
    /\ \A t \in BagToSet(limiter.others) :
          CopiesIn(t, limiter'.others) < CopiesIn(t, limiter.others) => now - t > 120

C39_ForwardedAgain == [][C39_DispatchStep /\ C39_CleanupStep]_vars

\* a client that had been rejected is forwarded by its request 120 seconds
\* after its window began, in a dispatch that ran the cleanup and kept the
\* 1000 entries of other clients that were exactly 120 seconds old
C39_Witness ==
    /\ limiter.out = [key |-> "h1", result |-> "forwarded",
                      seen |-> requests_per_minute + MaxRlOver, cleaned |-> TRUE]
    /\ limiter.counts["h1"] = [present |-> TRUE, count |-> 1, start |-> now]
    /\ now = 120 /\ limiter.others = [t \in {0} |-> OtherClients]

\* the dispatch of one more client, with the clock moved on since the 999
\* before it, has run the cleanup: those 999 entries and the counter of h1,
\* 180 seconds old, are gone and the new entry is kept
C39_WitnessCleanup ==
    /\ limiter.out.key = "other" /\ limiter.out.cleaned /\ now = 180
    /\ ~limiter.counts["h1"].present
    /\ limiter.others = SetToBag({180})

\* C34: a list response is ordered newest-created-first: of any two tasks
\* it returns, one created strictly later never comes after the other, and
\* the created_at it is ordered by is the one the task got when it was
\* created: no update or delete changes it.
C34_ListOrdered ==
    \A r \in ReqIds :
        (req[r].pc = "done" /\ req[r].op = "list" /\ req[r].result.kind = "list") =>
            \A i, j \in 1..Len(req[r].result.items) :
                i < j => req[r].result.items[i].created_at
                            >= req[r].result.items[j].created_at

C34_CreatedAtKept ==
    \A i \in DOMAIN tasks : tasks'[i].created_at = tasks[i].created_at

C34_NewestFirst == []C34_ListOrdered /\ [][C34_CreatedAtKept]_vars

\* the older task was updated after the newer one was created and is still
\* listed second
C34_Witness ==
    /\ req[1].pc = "done" /\ req[1].op = "list" /\ req[1].result.kind = "list"
    /\ Len(req[1].result.items) = 2
    /\ req[1].result.items[1].id = 2 /\ req[1].result.items[2].id = 1
    /\ req[1].result.items[1].created_at > req[1].result.items[2].created_at
    /\ req[1].result.items[2].updated_at > req[1].result.items[1].updated_at

\* C37 as stated: while an update request and a delete request on the same
\* task interleave at their storage calls, a task that has reached status
\* deleted is never modified afterwards: no later step writes its title,
\* description, priority, status or updated_at, and its status never leaves
\* deleted.
C37_DeletedStaysUntouched ==
    [][\A i \in DOMAIN tasks :
          tasks[i].status = "deleted" =>
             /\ tasks'[i].status = "deleted"
             /\ tasks'[i].title = tasks[i].title
             /\ tasks'[i].description = tasks[i].description
             /\ tasks'[i].priority = tasks[i].priority
             /\ tasks'[i].updated_at = tasks[i].updated_at]_vars

\* C35 as stated: every stored task has a status among pending, in_progress,
\* completed and deleted and a priority among low, medium and high.
C35_StoredEnums ==
    \A i \in DOMAIN tasks :
        /\ tasks[i].status \in {"pending", "in_progress", "completed", "deleted"}
        /\ tasks[i].priority \in {"low", "medium", "high"}

\* C36 as stated: a verify_token call makes at most two key-set fetches and
\* ends in exactly one of three outcomes: an identity, a 401, or a 503.
C36_TwoFetchesThreeOutcomes ==
    \A r \in ReqIds :
        /\ req[r].fetches <= 2
        /\ req[r].pc = "verified" => req[r].user.kind = "user" /\ req[r].result.kind = "none"
        /\ req[r].pc = "done" =>
              /\ req[r].user.kind = "none"
              /\ req[r].result.kind = "error"
              /\ req[r].result.code \in {401, 503}

\* C38 as stated: with refreshes running concurrently, a snapshot installed
\* over another one never has an earlier expires_at: the cache does not go
\* back to the result of a fetch that started before the one it holds.
C38_NeverBackwards ==
    [][(cache.set /\ cache'.set) => cache'.expires_at >= cache.expires_at]_vars

\* C40 as stated: whatever add, update, toggle and delete commands ran, a
\* new JSONStore built on the file loads exactly the tasks and the next_id
\* that the store which wrote the file held; no accepted command leaves a
\* file that loads as an empty store.
C40_RoundTrip ==
    /\ load_from_file(cli.file) = cli.file
    /\ cli.out.text = "updated successfully." =>
          load_from_file(cli.file).tasks[cli.out.id].status # "none"

====
